---- MODULE Spec2Model ----
(***************************************************************************)
(* Pixshop: the state held by the App component (src/App.tsx) and the     *)
(* handlers that change it.  One action per event handler or per          *)
(* continuation of an asynchronous handler after an await.  A handler     *)
(* reads the state of the render in which it was created; a continuation  *)
(* after an await still reads the values captured before the await, so    *)
(* every request in flight carries the captured values it will use.       *)
(* The history and batch stores, the variation gate with the selector's   *)
(* previewed index (src/components/VariationSelector.tsx), the single     *)
(* calls behind a variations request (src/services/geminiService.ts),     *)
(* batch apply, the zip download, the loading/error flags, the retouch    *)
(* prompt and hotspot, the request handlers of the panels, the video      *)
(* flow (generation, last-frame extraction, follow-up) and the object     *)
(* URLs of the current image and of the held video are modelled.          *)
(* Indices keep the 0-based values of the code: history[historyIndex] of  *)
(* the code is history[historyIndex + 1] here.                            *)
(***************************************************************************)
EXTENDS Integers, Sequences, FiniteSets, TLC

\* ---------------------------------------------------------------- bounds
\* files the user can choose from; a selection holds at most this many
MaxFiles == 3
\* uploads, variation requests, crops, batch applies, zip downloads, video
\* requests and frame extractions started in one run, all kinds together
MaxOps == 3
\* thumbnails of the variation selector the user clicks: the first ones
MaxPreview == 2
\* polls of a video operation that are counted (polling goes on beyond)
MaxPolls == 2

\* ------------------------------------------------------ program constants
\* the count passed to every generate...Variations call
NumVariations == 4

Tabs == {"retouch", "adjust", "filters", "crop", "video", "reference", "character"}

\* the texts typed into a prompt field: empty, white space only, a request
Prompts == {"", " ", "text"}

\* a trim that leaves white space in place
TrimNothing(p) == p

\* String.prototype.trim on the texts above
Trim(p) == IF p = " " THEN "" ELSE p

\* ------------------------------------------------------------------ files
\* A File object is identified by how it was made.
Undef == [kind |-> "undefined", n |-> 0]
UploadFile(k) == [kind |-> "upload", n |-> k]
VariationFile(k) == [kind |-> "variation", n |-> k]
CroppedFile == [kind |-> "cropped", n |-> 0]
\* the file made from the collaborator's result for the given input file
AppliedFile(orig) == [kind |-> "applied", n |-> orig.n]

\* the selections a file input can deliver: files in the order chosen
RECURSIVE SelectionsFrom(_)
SelectionsFrom(k) ==
    IF k > MaxFiles THEN {<<>>}
    ELSE LET rest == SelectionsFrom(k + 1)
         IN  rest \cup {<<UploadFile(k)>> \o s : s \in rest}
Selections == SelectionsFrom(1)

\* ---------------------------------------------------------------- errors
NoError == [kind |-> "null", image |-> 0]
ErrorOf(kind, image) == [kind |-> kind, image |-> image]

\* what a rejected generator() can deliver to the catch block: an Error
\* carrying the collaborator's or the transport's message, or a value that
\* is not an Error (the event of a failed file read)
Failures == {[isError |-> TRUE, message |-> "request failed"],
             [isError |-> FALSE, message |-> "event"]}

\* a catch block that shows its fixed text whatever was thrown
MessageOfGeneric(err) == "An unknown error occurred."

\* err instanceof Error ? err.message : 'An unknown error occurred.'
MessageOf(err) ==
    IF err.isError THEN err.message ELSE "An unknown error occurred."

VARIABLES
    history,          \* useState<File[]>([])
    historyIndex,     \* useState<number>(-1)
    isBatchMode,      \* useState<boolean>(false)
    batchImages,      \* useState<BatchImage[]>([])
    activeIndex,      \* useState<number>(0)
    isLoading,        \* useState<boolean>(false)
    error,            \* useState<string | null>(null)
    activeTab,        \* useState<Tab>('retouch')
    completedCrop,    \* useState<PixelCrop>(): TRUE when a crop is selected
    variationImages,  \* useState<File[] | null>(null): <<>> stands for null
    pendingAction,    \* useState<fn | null>(null): <<>> is null, <<c>> a closure
    varReqs,          \* handleGenerateVariations calls awaiting generator():
                      \* the captured render, the single calls resolved
    batchRuns,        \* handleBatchApply calls awaiting operation()
    zips,             \* handleDownloadZip calls awaiting generateAsync()
    timers,           \* pending setTimeout(() => setIsLoading(false), 1000)
    selectedIndex,    \* VariationSelector useState(0), 0 while not mounted
    prompt,           \* useState<string>(''): the retouch prompt
    editHotspot,      \* useState<{x, y} | null>(null): <<>> is null
    displayHotspot,   \* useState<{x, y} | null>(null): <<>> is null
    hotspotOn,        \* the image that was displayed when the hotspot was set
    videoResult,      \* useState<{url, blob} | null>(null): <<>> is null
    isExtendingVideo, \* useState(false)
    videoLastFrame,   \* useState<File | null>(null): <<>> is null
    videoReqs,        \* handleGenerateVideo calls awaiting generateVideoFromImage
    extracts,         \* handleStartExtendVideo calls awaiting extractLastFrame
    videoUrls,        \* object URLs created for videos and not revoked
    currentImageUrl,  \* useState<string | null>(null): <<>> is null
    liveUrls,         \* object URLs created for the current image, not revoked
    used,             \* operations started so far (bounds the run)
    lastUpload,       \* the file of the most recent single upload (history)
    refHistory,       \* reference linear history: the array
    refCursor,        \* reference linear history: the cursor (0-based)
    response,         \* handleApiResponse: <<the response at hand>> or <<>>
    apiResult         \* handleApiResponse: <<what it returned or threw>> or <<>>

vars == <<history, historyIndex, isBatchMode, batchImages, activeIndex,
          isLoading, error, activeTab, completedCrop, variationImages,
          pendingAction, varReqs, batchRuns, zips, timers, selectedIndex,
          prompt, editHotspot, displayHotspot, hotspotOn, videoResult,
          isExtendingVideo, videoLastFrame, videoReqs, extracts, videoUrls,
          currentImageUrl, liveUrls,
          used, lastUpload, refHistory, refCursor, response, apiResult>>

storeVars == <<history, historyIndex, isBatchMode, batchImages, activeIndex>>
gateVars == <<variationImages, pendingAction>>
asyncVars == <<varReqs, batchRuns, zips, timers>>
refVars == <<lastUpload, refHistory, refCursor>>
toolVars == <<prompt, editHotspot, displayHotspot, hotspotOn>>
apiVars == <<response, apiResult>>
videoVars == <<videoResult, isExtendingVideo, videoLastFrame, videoReqs,
               extracts, videoUrls>>
urlVars == <<currentImageUrl, liveUrls>>
\* the state of the component itself, without the bookkeeping of the model
progVars == <<history, historyIndex, isBatchMode, batchImages, activeIndex,
              isLoading, error, activeTab, completedCrop, variationImages,
              pendingAction, prompt, editHotspot, displayHotspot, videoResult,
              isExtendingVideo, videoLastFrame>>

\* ------------------------------------------------------- derived values
\* arr[i] of the code, undefined outside the array
At(arr, i) == IF i >= 0 /\ i < Len(arr) THEN arr[i + 1] ELSE Undef

Hole == [original |-> Undef, edited |-> Undef]
PairAt(arr, i) == IF i >= 0 /\ i < Len(arr) THEN arr[i + 1] ELSE Hole

currentImage ==
    IF isBatchMode THEN PairAt(batchImages, activeIndex).edited
    ELSE At(history, historyIndex)

originalImage ==
    IF isBatchMode THEN PairAt(batchImages, activeIndex).original
    ELSE At(history, 0)

canUndo == historyIndex > 0
canRedo == historyIndex < Len(history) - 1

\* what renderContent shows, which decides the controls the user can reach
Screen ==
    IF error # NoError THEN "error"
    ELSE IF currentImage = Undef THEN "start"
    ELSE IF variationImages # <<>> THEN "gate"
    ELSE IF isExtendingVideo /\ videoLastFrame # <<>> THEN "extend"
    ELSE IF videoResult # <<>> THEN "video"
    ELSE "editor"

availableTabs ==
    IF isBatchMode THEN {"adjust", "filters"} ELSE Tabs

\* the state of VariationSelector across a step: kept while the component
\* stays rendered, initial again once renderContent has shown something else
SelectorState ==
    selectedIndex' = IF Screen = "gate" /\ Screen' = "gate"
                     THEN selectedIndex ELSE 0

\* URL.createObjectURL(resource): an object URL is known by the resource it
\* stands for and a number that no URL still live carries
NewUrl(live, resource) ==
    [id |-> CHOOSE n \in 1..(Cardinality(live) + 1) : \A u \in live : u.id # n,
     of |-> resource]

\* an effect that creates the URL of the new current image and never
\* revokes the one it made before
ImageUrlEffectLeaking ==
    IF currentImage' = currentImage
    THEN UNCHANGED urlVars
    ELSE IF currentImage' # Undef
         THEN /\ liveUrls' = liveUrls \cup {NewUrl(liveUrls, currentImage')}
              /\ currentImageUrl' = <<NewUrl(liveUrls, currentImage')>>
         ELSE /\ liveUrls' = liveUrls
              /\ currentImageUrl' = <<>>

\* useEffect(..., [currentImage]) after the render that follows a step:
\* when the current image has changed, the cleanup of the previous run
\* revokes the URL it made and the new run makes the URL of the new image
ImageUrlEffect ==
    IF currentImage' = currentImage
    THEN UNCHANGED urlVars
    ELSE LET kept == {u \in liveUrls : <<u>> # currentImageUrl}
         IN  IF currentImage' # Undef
             THEN /\ liveUrls' = kept \cup {NewUrl(kept, currentImage')}
                  /\ currentImageUrl' = <<NewUrl(kept, currentImage')>>
             ELSE /\ liveUrls' = kept
                  /\ currentImageUrl' = <<>>

\* handleBackToEditor: the URL of the held video is revoked and the video
\* dropped, the follow-up state is left
BackToEditor ==
    /\ IF videoResult # <<>>
       THEN /\ videoUrls' = videoUrls \ {videoResult[1].url}
            /\ videoResult' = <<>>
       ELSE UNCHANGED <<videoUrls, videoResult>>
    /\ isExtendingVideo' = FALSE
    /\ videoLastFrame' = <<>>

\* the values a handler created in this render closes over
\* (the dependency list of addImageToHistory)
CaptureRender ==
    [history |-> history, historyIndex |-> historyIndex,
     isBatchMode |-> isBatchMode, activeIndex |-> activeIndex]

\* undo without the test for the first entry
UndoIndexUnguarded(idx) == idx - 1

\* historyIndex > 0 && setHistoryIndex(historyIndex - 1)
UndoIndex(idx) == IF idx > 0 THEN idx - 1 ELSE idx

\* redo without the test for the last entry
RedoIndexUnguarded(h, idx) == idx + 1

\* historyIndex < history.length - 1 && setHistoryIndex(historyIndex + 1)
RedoIndex(h, idx) == IF idx < Len(h) - 1 THEN idx + 1 ELSE idx

\* history.slice(0, historyIndex + 1)
Slice(h, idx) == SubSeq(h, 1, idx + 1)

\* newBatch = [...prev]; newBatch[idx] = { ...newBatch[idx], edited: file }
\* (writing past the end of a JavaScript array leaves undefined slots)
SetEdited(prev, idx, file) ==
    [k \in 1..(IF idx + 1 > Len(prev) THEN idx + 1 ELSE Len(prev)) |->
        IF k = idx + 1
        THEN [original |-> PairAt(prev, idx).original, edited |-> file]
        ELSE PairAt(prev, k - 1)]

\* the pairs built back to front
PairsOfReversed(files) ==
    [k \in 1..Len(files) |->
        [original |-> files[Len(files) + 1 - k],
         edited |-> files[Len(files) + 1 - k]]]

\* Array.from(files).map(file => ({ original: file, edited: file }))
PairsOf(files) ==
    [k \in 1..Len(files) |-> [original |-> files[k], edited |-> files[k]]]

\* the variation files made from the generator's result, in call order
VariationFiles == [k \in 1..NumVariations |-> VariationFile(k)]

Remove(seq, k) == SubSeq(seq, 1, k - 1) \o SubSeq(seq, k + 1, Len(seq))

\* ------------------------------------------- reference linear history
RefCommit(x) ==
    /\ refHistory' = Append(SubSeq(refHistory, 1, refCursor + 1), x)
    /\ refCursor' = Len(refHistory') - 1
    /\ UNCHANGED lastUpload

RefClear ==
    /\ refHistory' = <<>>
    /\ refCursor' = -1
    /\ UNCHANGED lastUpload

\* ------------------------------------------------------------- handlers
\* addImageToHistory as created in the render whose values are cl
addImageToHistory(cl, newImageFile) ==
    /\ IF cl.isBatchMode
       THEN /\ batchImages' = SetEdited(batchImages, cl.activeIndex, newImageFile)
            /\ UNCHANGED <<history, historyIndex>>
       ELSE /\ history' = Append(Slice(cl.history, cl.historyIndex), newImageFile)
            /\ historyIndex' = Len(history') - 1
            /\ UNCHANGED batchImages
    /\ completedCrop' = FALSE

handleSingleImageUpload(file) ==
    /\ isBatchMode' = FALSE
    /\ batchImages' = <<>>
    /\ error' = NoError
    /\ history' = <<file>>
    /\ historyIndex' = 0
    /\ activeTab' = "retouch"
    /\ completedCrop' = FALSE
    /\ lastUpload' = file
    /\ refHistory' = <<file>>
    /\ refCursor' = 0
    /\ videoResult' = <<>>
    /\ editHotspot' = <<>>
    /\ displayHotspot' = <<>>
    /\ hotspotOn' = Undef
    /\ UNCHANGED <<activeIndex, isLoading, gateVars, asyncVars, prompt,
                   isExtendingVideo, videoLastFrame, videoReqs, extracts,
                   videoUrls>>

handleBatchUpload(files) ==
    /\ isBatchMode' = TRUE
    /\ history' = <<>>
    /\ historyIndex' = -1
    /\ error' = NoError
    /\ batchImages' = PairsOf(files)
    /\ activeIndex' = 0
    /\ activeTab' = "adjust"
    /\ RefClear
    /\ videoResult' = <<>>
    /\ UNCHANGED <<isLoading, completedCrop, gateVars, asyncVars, toolVars,
                   isExtendingVideo, videoLastFrame, videoReqs, extracts,
                   videoUrls>>

\* StartScreen onFileSelect
handleFileSelect(files) ==
    /\ Screen = "start"
    /\ IF Len(files) > 1
       THEN /\ used < MaxOps
            /\ handleBatchUpload(files)
            /\ used' = used + 1
            /\ SelectorState
            /\ ImageUrlEffect
            /\ UNCHANGED apiVars
       ELSE IF Len(files) = 1
       THEN /\ used < MaxOps
            /\ handleSingleImageUpload(files[1])
            /\ used' = used + 1
            /\ SelectorState
            /\ ImageUrlEffect
            /\ UNCHANGED apiVars
       ELSE UNCHANGED vars

\* the tab buttons
setActiveTab(tab) ==
    /\ Screen = "editor"
    /\ tab \in availableTabs
    /\ activeTab' = tab
    /\ UNCHANGED <<storeVars, isLoading, error, completedCrop, gateVars,
                   asyncVars, used, refVars>>
    /\ UNCHANGED <<toolVars, videoVars>>
    /\ SelectorState
    /\ ImageUrlEffect
    /\ UNCHANGED apiVars

\* the Undo button's onClick
Undo ==
    /\ Screen = "editor"
    /\ ~isBatchMode
    /\ historyIndex' = UndoIndex(historyIndex)
    /\ refCursor' = IF refCursor > 0 THEN refCursor - 1 ELSE refCursor
    /\ UNCHANGED <<history, isBatchMode, batchImages, activeIndex, isLoading,
                   error, activeTab, completedCrop, gateVars, asyncVars, used,
                   lastUpload, refHistory>>
    /\ UNCHANGED <<toolVars, videoVars>>
    /\ SelectorState
    /\ ImageUrlEffect
    /\ UNCHANGED apiVars

\* the Redo button's onClick
Redo ==
    /\ Screen = "editor"
    /\ ~isBatchMode
    /\ historyIndex' = RedoIndex(history, historyIndex)
    /\ refCursor' = IF refCursor < Len(refHistory) - 1
                    THEN refCursor + 1 ELSE refCursor
    /\ UNCHANGED <<history, isBatchMode, batchImages, activeIndex, isLoading,
                   error, activeTab, completedCrop, gateVars, asyncVars, used,
                   lastUpload, refHistory>>
    /\ UNCHANGED <<toolVars, videoVars>>
    /\ SelectorState
    /\ ImageUrlEffect
    /\ UNCHANGED apiVars

\* a reset that drops the edits instead of only moving the cursor
ResetTruncating ==
    /\ Screen = "editor"
    /\ ~isBatchMode
    /\ canUndo
    /\ historyIndex' = 0
    /\ history' = <<history[1]>>
    /\ refCursor' = IF refHistory = <<>> THEN refCursor ELSE 0
    /\ UNCHANGED <<isBatchMode, batchImages, activeIndex, isLoading,
                   error, activeTab, completedCrop, gateVars, asyncVars, used,
                   lastUpload, refHistory>>
    /\ UNCHANGED <<toolVars, videoVars>>
    /\ SelectorState
    /\ ImageUrlEffect
    /\ UNCHANGED apiVars

\* the Reset button, rendered when !isBatchMode && canUndo
Reset ==
    /\ Screen = "editor"
    /\ ~isBatchMode
    /\ canUndo
    /\ historyIndex' = 0
    /\ refCursor' = IF refHistory = <<>> THEN refCursor ELSE 0
    /\ UNCHANGED <<history, isBatchMode, batchImages, activeIndex, isLoading,
                   error, activeTab, completedCrop, gateVars, asyncVars, used,
                   lastUpload, refHistory>>
    /\ UNCHANGED <<toolVars, videoVars>>
    /\ SelectorState
    /\ ImageUrlEffect
    /\ UNCHANGED apiVars

\* the 'Upload New' / 'Exit Batch Mode' button
resetState ==
    /\ Screen = "editor"
    /\ isBatchMode' = FALSE
    /\ batchImages' = <<>>
    /\ history' = <<>>
    /\ historyIndex' = -1
    /\ error' = NoError
    /\ RefClear
    /\ prompt' = ""
    /\ editHotspot' = <<>>
    /\ displayHotspot' = <<>>
    /\ hotspotOn' = Undef
    /\ BackToEditor
    /\ UNCHANGED <<activeIndex, isLoading, activeTab, completedCrop, gateVars,
                   asyncVars, used, videoReqs, extracts>>
    /\ SelectorState
    /\ ImageUrlEffect
    /\ UNCHANGED apiVars

\* BatchThumbnailTray onSelect: one thumbnail per entry of batchImages
setActiveIndex(i) ==
    /\ Screen = "editor"
    /\ isBatchMode
    /\ i \in 0..(Len(batchImages) - 1)
    /\ activeIndex' = i
    /\ UNCHANGED <<history, historyIndex, isBatchMode, batchImages, isLoading,
                   error, activeTab, completedCrop, gateVars, asyncVars, used,
                   refVars>>
    /\ UNCHANGED <<toolVars, videoVars>>
    /\ SelectorState
    /\ ImageUrlEffect
    /\ UNCHANGED apiVars

\* ReactCrop onComplete, rendered on the crop tab in single-image mode
setCompletedCrop ==
    /\ Screen = "editor"
    /\ activeTab = "crop"
    /\ ~isBatchMode
    /\ completedCrop' = TRUE
    /\ UNCHANGED <<storeVars, isLoading, error, activeTab, gateVars,
                   asyncVars, used, refVars>>
    /\ UNCHANGED <<toolVars, videoVars>>
    /\ SelectorState
    /\ ImageUrlEffect
    /\ UNCHANGED apiVars

\* CropPanel onApplyCrop
handleApplyCrop ==
    /\ Screen = "editor"
    /\ activeTab = "crop"
    /\ ~isLoading
    /\ completedCrop
    /\ used < MaxOps
    /\ addImageToHistory(CaptureRender, CroppedFile)
    /\ IF isBatchMode THEN UNCHANGED refVars ELSE RefCommit(CroppedFile)
    /\ used' = used + 1
    /\ UNCHANGED <<isBatchMode, activeIndex, isLoading, error, activeTab,
                   gateVars, asyncVars>>
    /\ UNCHANGED <<toolVars, videoVars>>
    /\ SelectorState
    /\ ImageUrlEffect
    /\ UNCHANGED apiVars


\* ----------------------------------------------------- variation requests
\* handleGenerateVariations up to `await generator()`, reached from the
\* retouch, adjust, filters, reference and character panels (all disabled
\* while isLoading)
handleGenerateVariations ==
    /\ Screen = "editor"
    /\ activeTab \in {"retouch", "adjust", "filters", "reference", "character"}
    /\ activeTab = "retouch" => Trim(prompt) # "" /\ editHotspot # <<>>
    /\ ~isLoading
    /\ currentImage # Undef
    /\ used < MaxOps
    /\ isLoading' = TRUE
    /\ error' = NoError
    /\ varReqs' = Append(varReqs, [cl |-> CaptureRender, resolved |-> 0])
    /\ used' = used + 1
    /\ UNCHANGED <<storeVars, activeTab, completedCrop, gateVars, batchRuns,
                   zips, timers, refVars>>
    /\ UNCHANGED <<toolVars, videoVars>>
    /\ SelectorState
    /\ ImageUrlEffect
    /\ UNCHANGED apiVars

\* generator() is Promise.all over NumVariations single calls, all issued
\* when it is called; a request records how many of them have resolved.
\* One of them resolves while others are outstanding: its result waits at
\* its call's position in the array of Promise.all.
GenerateCallResolved(r) ==
    /\ r \in 1..Len(varReqs)
    /\ varReqs[r].resolved + 1 < NumVariations
    /\ varReqs' = [varReqs EXCEPT ![r].resolved = @ + 1]
    /\ UNCHANGED <<storeVars, isLoading, error, activeTab, completedCrop,
                   gateVars, batchRuns, zips, timers, used, refVars>>
    /\ UNCHANGED <<toolVars, videoVars>>
    /\ SelectorState
    /\ ImageUrlEffect
    /\ UNCHANGED apiVars

\* a result that is dropped when the gate already holds a set
VariationsResolvedFirstWins(r) ==
    /\ r \in 1..Len(varReqs)
    /\ varReqs[r].resolved = NumVariations - 1
    /\ IF variationImages = <<>>
       THEN /\ variationImages' = VariationFiles
            /\ pendingAction' = <<varReqs[r].cl>>
       ELSE UNCHANGED gateVars
    /\ isLoading' = FALSE
    /\ varReqs' = Remove(varReqs, r)
    /\ UNCHANGED <<storeVars, error, activeTab, completedCrop, batchRuns,
                   zips, timers, used, refVars>>
    /\ UNCHANGED <<toolVars, videoVars>>
    /\ SelectorState
    /\ ImageUrlEffect
    /\ UNCHANGED apiVars

\* a gate opened as soon as the first of the single calls has resolved
VariationsResolvedEarly(r) ==
    /\ r \in 1..Len(varReqs)
    /\ variationImages' = VariationFiles
    /\ pendingAction' = <<varReqs[r].cl>>
    /\ isLoading' = FALSE
    /\ varReqs' = Remove(varReqs, r)
    /\ UNCHANGED <<storeVars, error, activeTab, completedCrop, batchRuns,
                   zips, timers, used, refVars>>
    /\ UNCHANGED <<toolVars, videoVars>>
    /\ SelectorState
    /\ ImageUrlEffect
    /\ UNCHANGED apiVars

\* the last outstanding call resolves, so generator() resolves with the
\* results in call order: the try block and finally
VariationsResolved(r) ==
    /\ r \in 1..Len(varReqs)
    /\ varReqs[r].resolved = NumVariations - 1
    /\ variationImages' = VariationFiles
    /\ pendingAction' = <<varReqs[r].cl>>
    /\ isLoading' = FALSE
    /\ varReqs' = Remove(varReqs, r)
    /\ UNCHANGED <<storeVars, error, activeTab, completedCrop, batchRuns,
                   zips, timers, used, refVars>>
    /\ UNCHANGED <<toolVars, videoVars>>
    /\ SelectorState
    /\ ImageUrlEffect
    /\ UNCHANGED apiVars

\* one of the outstanding calls rejects, so generator() rejects whatever
\* the other calls do: the catch block and finally
VariationsRejected(r, err) ==
    /\ r \in 1..Len(varReqs)
    /\ error' = ErrorOf(MessageOf(err), 0)
    /\ isLoading' = FALSE
    /\ varReqs' = Remove(varReqs, r)
    /\ UNCHANGED <<storeVars, activeTab, completedCrop, gateVars, batchRuns,
                   zips, timers, used, refVars>>
    /\ UNCHANGED <<toolVars, videoVars>>
    /\ SelectorState
    /\ ImageUrlEffect
    /\ UNCHANGED apiVars

\* a thumbnail click that also hands the clicked image to the commit function
setSelectedIndexCommitting(index) ==
    /\ Screen = "gate"
    /\ index \in 0..(Len(variationImages) - 1)
    /\ selectedIndex' = index
    /\ IF pendingAction # <<>>
       THEN addImageToHistory(pendingAction[1], variationImages[index + 1])
       ELSE UNCHANGED <<history, historyIndex, batchImages, completedCrop>>
    /\ UNCHANGED <<isBatchMode, activeIndex, isLoading, error, activeTab,
                   gateVars, asyncVars, used, refVars>>
    /\ UNCHANGED <<toolVars, videoVars>>
    /\ ImageUrlEffect
    /\ UNCHANGED apiVars

\* VariationSelector: a click on thumbnail index
setSelectedIndex(index) ==
    /\ Screen = "gate"
    /\ index \in 0..(Len(variationImages) - 1)
    /\ selectedIndex' = index
    /\ UNCHANGED <<storeVars, isLoading, error, activeTab, completedCrop,
                   gateVars, asyncVars, used, refVars>>
    /\ UNCHANGED <<toolVars, videoVars>>
    /\ ImageUrlEffect
    /\ UNCHANGED apiVars

\* a confirmation that commits and leaves the gate as it is
handleVariationSelectedKeepsGate(i) ==
    /\ Screen = "gate"
    /\ i \in 1..Len(variationImages)
    /\ i = selectedIndex + 1
    /\ IF pendingAction # <<>>
       THEN addImageToHistory(pendingAction[1], variationImages[i])
       ELSE UNCHANGED <<history, historyIndex, batchImages, completedCrop>>
    /\ IF isBatchMode THEN UNCHANGED refVars ELSE RefCommit(variationImages[i])
    /\ UNCHANGED <<isBatchMode, activeIndex, isLoading, error, activeTab,
                   gateVars, asyncVars, used>>
    /\ UNCHANGED <<toolVars, videoVars>>
    /\ SelectorState
    /\ ImageUrlEffect
    /\ UNCHANGED apiVars

\* VariationSelector 'Select this version': onSelect(images[selectedIndex]),
\* i being the place of that image in the list
handleVariationSelected(i) ==
    /\ Screen = "gate"
    /\ i \in 1..Len(variationImages)
    /\ i = selectedIndex + 1
    /\ IF pendingAction # <<>>
       THEN addImageToHistory(pendingAction[1], variationImages[i])
       ELSE UNCHANGED <<history, historyIndex, batchImages, completedCrop>>
    /\ variationImages' = <<>>
    /\ pendingAction' = <<>>
    /\ IF isBatchMode THEN UNCHANGED refVars ELSE RefCommit(variationImages[i])
    /\ UNCHANGED <<isBatchMode, activeIndex, isLoading, error, activeTab,
                   asyncVars, used>>
    /\ UNCHANGED <<toolVars, videoVars>>
    /\ SelectorState
    /\ ImageUrlEffect
    /\ UNCHANGED apiVars

\* a cancel that drops the candidates and keeps the commit function
handleVariationCancelKeepsAction ==
    /\ Screen = "gate"
    /\ variationImages' = <<>>
    /\ UNCHANGED pendingAction
    /\ UNCHANGED <<storeVars, isLoading, error, activeTab, completedCrop,
                   asyncVars, used, refVars>>
    /\ UNCHANGED <<toolVars, videoVars>>
    /\ SelectorState
    /\ ImageUrlEffect
    /\ UNCHANGED apiVars

\* VariationSelector 'Cancel'
handleVariationCancel ==
    /\ Screen = "gate"
    /\ variationImages' = <<>>
    /\ pendingAction' = <<>>
    /\ UNCHANGED <<storeVars, isLoading, error, activeTab, completedCrop,
                   asyncVars, used, refVars>>
    /\ UNCHANGED <<toolVars, videoVars>>
    /\ SelectorState
    /\ ImageUrlEffect
    /\ UNCHANGED apiVars

\* ------------------------------------------------------------ batch apply
\* the loop of handleBatchApply arriving at iteration i (0-based) with the
\* local copy snap: leave the loop, throw on newBatchImages[i].original of
\* an undefined slot, or call operation() and await
BatchLoop(snap, i, total, runs) ==
    IF i >= Len(snap)
    THEN /\ timers' = timers + 1
         /\ batchRuns' = runs
         /\ UNCHANGED <<error, isLoading>>
    ELSE IF snap[i + 1] = Hole
    THEN /\ error' = ErrorOf("batch", i + 1)
         /\ isLoading' = FALSE
         /\ batchRuns' = runs
         /\ UNCHANGED timers
    ELSE /\ batchRuns' = Append(runs, [snap |-> snap, i |-> i, total |-> total])
         /\ UNCHANGED <<error, isLoading, timers>>

\* AdjustmentPanel / FilterPanel onBatchApply (batch mode, disabled while
\* isLoading): handleBatchApply up to the first await
handleBatchApply ==
    /\ Screen = "editor"
    /\ isBatchMode
    /\ activeTab \in {"adjust", "filters"}
    /\ ~isLoading
    /\ used < MaxOps
    /\ used' = used + 1
    /\ IF batchImages # <<>> /\ batchImages[1] = Hole
       THEN /\ error' = ErrorOf("batch", 1)
            /\ isLoading' = FALSE
            /\ UNCHANGED <<batchRuns, timers>>
       ELSE /\ error' = NoError
            /\ isLoading' = TRUE
            /\ IF batchImages = <<>>
               THEN /\ timers' = timers + 1
                    /\ UNCHANGED batchRuns
               ELSE /\ batchRuns' = Append(batchRuns,
                           [snap |-> batchImages, i |-> 0,
                            total |-> Len(batchImages)])
                    /\ UNCHANGED timers
    /\ UNCHANGED <<storeVars, activeTab, completedCrop, gateVars, varReqs,
                   zips, refVars>>
    /\ UNCHANGED <<toolVars, videoVars>>
    /\ SelectorState
    /\ ImageUrlEffect
    /\ UNCHANGED apiVars

\* a loop whose call takes the pair's edited file as its input
BatchStepResolvedFromEdited(b) ==
    /\ b \in 1..Len(batchRuns)
    /\ LET run == batchRuns[b]
           pair == run.snap[run.i + 1]
           newSnap == [run.snap EXCEPT ![run.i + 1] =
                          [original |-> pair.original,
                           edited |-> AppliedFile(pair.edited)]]
       IN  /\ pair.original # Undef
           /\ batchImages' = newSnap
           /\ BatchLoop(newSnap, run.i + 1, run.total, Remove(batchRuns, b))
    /\ UNCHANGED <<history, historyIndex, isBatchMode, activeIndex, activeTab,
                   completedCrop, gateVars, varReqs, zips, used, refVars>>
    /\ UNCHANGED <<toolVars, videoVars>>
    /\ SelectorState
    /\ ImageUrlEffect
    /\ UNCHANGED apiVars

\* operation() of iteration i resolved: store the result, publish the copy
\* and go on with the loop
BatchStepResolved(b) ==
    /\ b \in 1..Len(batchRuns)
    /\ LET run == batchRuns[b]
           pair == run.snap[run.i + 1]
           newSnap == [run.snap EXCEPT ![run.i + 1] =
                          [original |-> pair.original,
                           edited |-> AppliedFile(pair.original)]]
       IN  /\ pair.original # Undef
           /\ batchImages' = newSnap
           /\ BatchLoop(newSnap, run.i + 1, run.total, Remove(batchRuns, b))
    /\ UNCHANGED <<history, historyIndex, isBatchMode, activeIndex, activeTab,
                   completedCrop, gateVars, varReqs, zips, used, refVars>>
    /\ UNCHANGED <<toolVars, videoVars>>
    /\ SelectorState
    /\ ImageUrlEffect
    /\ UNCHANGED apiVars

\* a failed call that does not stop the loop: the next pair is tried
BatchStepRejectedContinues(b) ==
    /\ b \in 1..Len(batchRuns)
    /\ LET run == batchRuns[b]
       IN  BatchLoop(run.snap, run.i + 1, run.total, Remove(batchRuns, b))
    /\ UNCHANGED <<storeVars, activeTab, completedCrop, gateVars, varReqs,
                   zips, used, refVars>>
    /\ UNCHANGED <<toolVars, videoVars>>
    /\ SelectorState
    /\ ImageUrlEffect
    /\ UNCHANGED apiVars

\* a failed call reported with the loop index itself as the image number
BatchStepRejectedZeroBased(b) ==
    /\ b \in 1..Len(batchRuns)
    /\ error' = ErrorOf("batch", batchRuns[b].i)
    /\ isLoading' = FALSE
    /\ batchRuns' = Remove(batchRuns, b)
    /\ UNCHANGED <<storeVars, activeTab, completedCrop, gateVars, varReqs,
                   zips, timers, used, refVars>>
    /\ UNCHANGED <<toolVars, videoVars>>
    /\ SelectorState
    /\ ImageUrlEffect
    /\ UNCHANGED apiVars

\* operation() of iteration i rejected: the catch block
BatchStepRejected(b) ==
    /\ b \in 1..Len(batchRuns)
    /\ error' = ErrorOf("batch", batchRuns[b].i + 1)
    /\ isLoading' = FALSE
    /\ batchRuns' = Remove(batchRuns, b)
    /\ UNCHANGED <<storeVars, activeTab, completedCrop, gateVars, varReqs,
                   zips, timers, used, refVars>>
    /\ UNCHANGED <<toolVars, videoVars>>
    /\ SelectorState
    /\ ImageUrlEffect
    /\ UNCHANGED apiVars

\* a timer whose callback leaves loading as it is
BatchTimerFiredKeepsLoading ==
    /\ timers > 0
    /\ timers' = timers - 1
    /\ UNCHANGED isLoading
    /\ UNCHANGED <<storeVars, error, activeTab, completedCrop, gateVars,
                   varReqs, batchRuns, zips, used, refVars>>
    /\ UNCHANGED <<toolVars, videoVars>>
    /\ SelectorState
    /\ ImageUrlEffect
    /\ UNCHANGED apiVars

\* the timer set after a complete batch apply
BatchTimerFired ==
    /\ timers > 0
    /\ timers' = timers - 1
    /\ isLoading' = FALSE
    /\ UNCHANGED <<storeVars, error, activeTab, completedCrop, gateVars,
                   varReqs, batchRuns, zips, used, refVars>>
    /\ UNCHANGED <<toolVars, videoVars>>
    /\ SelectorState
    /\ ImageUrlEffect
    /\ UNCHANGED apiVars

\* --------------------------------------------------------- zip and errors
\* 'Download All (.zip)' in batch mode: handleDownloadZip up to the await
handleDownloadZip ==
    /\ Screen = "editor"
    /\ isBatchMode
    /\ batchImages # <<>>
    /\ used < MaxOps
    /\ isLoading' = TRUE
    /\ zips' = zips + 1
    /\ used' = used + 1
    /\ UNCHANGED <<storeVars, error, activeTab, completedCrop, gateVars,
                   varReqs, batchRuns, timers, refVars>>
    /\ UNCHANGED <<toolVars, videoVars>>
    /\ SelectorState
    /\ ImageUrlEffect
    /\ UNCHANGED apiVars

\* zip.generateAsync() resolved: the download and finally
ZipResolved ==
    /\ zips > 0
    /\ zips' = zips - 1
    /\ isLoading' = FALSE
    /\ UNCHANGED <<storeVars, error, activeTab, completedCrop, gateVars,
                   varReqs, batchRuns, timers, used, refVars>>
    /\ UNCHANGED <<toolVars, videoVars>>
    /\ SelectorState
    /\ ImageUrlEffect
    /\ UNCHANGED apiVars

\* zip.generateAsync() rejected: the catch block and finally
ZipRejected ==
    /\ zips > 0
    /\ zips' = zips - 1
    /\ error' = ErrorOf("zip", 0)
    /\ isLoading' = FALSE
    /\ UNCHANGED <<storeVars, activeTab, completedCrop, gateVars, varReqs,
                   batchRuns, timers, used, refVars>>
    /\ UNCHANGED <<toolVars, videoVars>>
    /\ SelectorState
    /\ ImageUrlEffect
    /\ UNCHANGED apiVars

\* a dismissal that takes back the edits of the batch collection
DismissErrorRollingBack ==
    /\ Screen = "error"
    /\ error' = NoError
    /\ isLoading' = FALSE
    /\ batchImages' = [k \in 1..Len(batchImages) |->
                          [batchImages[k] EXCEPT !.edited = batchImages[k].original]]
    /\ UNCHANGED <<history, historyIndex, isBatchMode, activeIndex, activeTab,
                   completedCrop, gateVars, asyncVars, used, refVars>>
    /\ UNCHANGED <<toolVars, videoVars>>
    /\ SelectorState
    /\ ImageUrlEffect
    /\ UNCHANGED apiVars

\* the error panel's Dismiss button
DismissError ==
    /\ Screen = "error"
    /\ error' = NoError
    /\ isLoading' = FALSE
    /\ UNCHANGED <<storeVars, activeTab, completedCrop, gateVars, asyncVars,
                   used, refVars>>
    /\ UNCHANGED <<toolVars, videoVars>>
    /\ SelectorState
    /\ ImageUrlEffect
    /\ UNCHANGED apiVars

\* ------------------------------------------------------------ retouch tool
\* where the image is clicked (offsetX, offsetY) and the sizes of the
\* <img> element (natural and client width, height)
Clicks == {[x |-> 1, y |-> 1], [x |-> 2, y |-> 1]}
ImgSizes == {[natural |-> 3, client |-> 2]}

\* Math.round(offset * (natural / client)) on non-negative numbers
RoundScaled(offset, size) ==
    (2 * offset * size.natural + size.client) \div (2 * size.client)

\* the <img> onClick; the loading overlay lies over the image
handleImageClick(offset, size) ==
    /\ Screen = "editor"
    /\ ~isLoading
    /\ activeTab # "crop" \/ isBatchMode
    /\ IF activeTab # "retouch"
       THEN UNCHANGED vars
       ELSE /\ displayHotspot' = <<offset>>
            /\ editHotspot' = <<[x |-> RoundScaled(offset.x, size),
                                y |-> RoundScaled(offset.y, size)]>>
            /\ hotspotOn' = currentImage
            /\ UNCHANGED <<storeVars, isLoading, error, activeTab,
                           completedCrop, gateVars, asyncVars, used, refVars,
                           prompt, videoVars>>
            /\ SelectorState
            /\ ImageUrlEffect
            /\ UNCHANGED apiVars

\* the retouch input's onChange
setPrompt(p) ==
    /\ Screen = "editor"
    /\ activeTab = "retouch"
    /\ ~isLoading
    /\ p # prompt
    /\ prompt' = p
    /\ UNCHANGED <<storeVars, isLoading, error, activeTab, completedCrop,
                   gateVars, asyncVars, used, refVars, editHotspot,
                   displayHotspot, hotspotOn, videoVars>>
    /\ SelectorState
    /\ ImageUrlEffect
    /\ UNCHANGED apiVars

\* handleGenerate of the retouch tab
handleGenerate ==
    /\ Screen = "editor"
    /\ activeTab = "retouch"
    /\ ~isLoading
    /\ IF Trim(prompt) = "" \/ editHotspot = <<>>
       THEN UNCHANGED vars
       ELSE handleGenerateVariations

\* ReferencePanel handleApply; referenceImage is the panel's own state
ReferencePanel_handleApply(referenceImage) ==
    /\ Screen = "editor"
    /\ activeTab = "reference"
    /\ ~isLoading
    /\ IF referenceImage # <<>>
       THEN handleGenerateVariations
       ELSE UNCHANGED vars

\* CharacterPanel handleGenerate; the additional images and the prompt are
\* the panel's own state, totalImages is [baseImage, ...additionalImages]
CharacterPanel_handleGenerate(additionalImages, p) ==
    /\ Screen = "editor"
    /\ activeTab = "character"
    /\ ~isLoading
    /\ IF Len(<<currentImage>> \o additionalImages) >= 2 /\ Trim(p) # ""
       THEN handleGenerateVariations
       ELSE UNCHANGED vars

\* ------------------------------------------------------------------ video
\* the Blob generateVideoFromImage delivers for a seed image and the File
\* extractLastFrame makes of a video
VideoOf(seed) == [kind |-> "video", seed |-> seed]
FrameOf(video) == [kind |-> "frame", video |-> video]

\* what extractLastFrame rejects with
ExtractFailures ==
    {[isError |-> TRUE, message |-> "Failed to load video for frame extraction."],
     [isError |-> TRUE, message |-> "Failed to create blob from canvas"]}

\* err instanceof Error ? err.message : 'Could not extract frame from video.'
ExtractMessageOf(err) ==
    IF err.isError THEN err.message ELSE "Could not extract frame from video."

\* a call of generateVideoFromImage just made: the image it works on, how
\* far the remote operation is known to be, the polls made
NewVideoRequest(seed) == [seed |-> seed, status |-> "starting", polls |-> 0]

\* a video request that takes the editor's image whatever it is handed
handleGenerateVideoFromCurrent(videoPrompt, baseImage) ==
    /\ currentImage # Undef
    /\ used < MaxOps
    /\ isLoading' = TRUE
    /\ error' = NoError
    /\ isExtendingVideo' = FALSE
    /\ videoLastFrame' = <<>>
    /\ videoReqs' = Append(videoReqs, NewVideoRequest(currentImage))
    /\ used' = used + 1
    /\ UNCHANGED <<storeVars, activeTab, completedCrop, gateVars, asyncVars,
                   refVars, toolVars, videoResult, extracts, videoUrls>>
    /\ SelectorState
    /\ ImageUrlEffect
    /\ UNCHANGED apiVars

\* handleGenerateVideo up to its await; baseImage is <<>> when not passed
handleGenerateVideo(videoPrompt, baseImage) ==
    LET imageToProcess ==
            IF baseImage # <<>> THEN baseImage[1] ELSE currentImage
    IN  /\ imageToProcess # Undef
        /\ used < MaxOps
        /\ isLoading' = TRUE
        /\ error' = NoError
        /\ isExtendingVideo' = FALSE
        /\ videoLastFrame' = <<>>
        /\ videoReqs' = Append(videoReqs, NewVideoRequest(imageToProcess))
        /\ used' = used + 1
        /\ UNCHANGED <<storeVars, activeTab, completedCrop, gateVars,
                       asyncVars, refVars, toolVars, videoResult, extracts,
                       videoUrls>>
        /\ SelectorState
        /\ ImageUrlEffect
        /\ UNCHANGED apiVars

\* ImageToVideoPanel handleGenerate (the panel of two props App renders)
ImageToVideoPanel_handleGenerate(p) ==
    /\ Screen = "editor"
    /\ activeTab = "video"
    /\ ~isLoading
    /\ IF Trim(p) # ""
       THEN handleGenerateVideo(p, <<>>)
       ELSE UNCHANGED vars

\* VideoExtendPanel handleGenerate with onGenerate of renderContent
VideoExtendPanel_handleGenerate(p) ==
    /\ Screen = "extend"
    /\ ~isLoading
    /\ IF Trim(p) # ""
       THEN handleGenerateVideo(p, videoLastFrame)
       ELSE UNCHANGED vars

\* generateVideoFromImage: ai.models.generateVideos resolves with an
\* operation that is done or not
OperationStarted(v, done) ==
    /\ v \in 1..Len(videoReqs)
    /\ videoReqs[v].status = "starting"
    /\ videoReqs' = [videoReqs EXCEPT
                        ![v].status = IF done THEN "done" ELSE "polling"]
    /\ UNCHANGED <<storeVars, isLoading, error, activeTab, completedCrop,
                   gateVars, asyncVars, used, refVars, toolVars, videoResult,
                   isExtendingVideo, videoLastFrame, extracts, videoUrls>>
    /\ SelectorState
    /\ ImageUrlEffect
    /\ UNCHANGED apiVars

\* a loop that gives up with the operation's last status after MaxPolls polls
PollCapped(v, done) ==
    /\ v \in 1..Len(videoReqs)
    /\ videoReqs[v].status = "polling"
    /\ videoReqs' = [videoReqs EXCEPT
                        ![v].status = IF done \/ videoReqs[v].polls + 1 >= MaxPolls
                                      THEN "done" ELSE "polling",
                        ![v].polls = IF @ < MaxPolls THEN @ + 1 ELSE @]
    /\ UNCHANGED <<storeVars, isLoading, error, activeTab, completedCrop,
                   gateVars, asyncVars, used, refVars, toolVars, videoResult,
                   isExtendingVideo, videoLastFrame, extracts, videoUrls>>
    /\ SelectorState
    /\ ImageUrlEffect
    /\ UNCHANGED apiVars

\* generateVideoFromImage: one round of while (!operation.done): the
\* ten-second wait, then getVideosOperation resolves with an operation that
\* is done or not; the polls are counted up to MaxPolls and go on beyond
Poll(v, done) ==
    /\ v \in 1..Len(videoReqs)
    /\ videoReqs[v].status = "polling"
    /\ videoReqs' = [videoReqs EXCEPT
                        ![v].status = IF done THEN "done" ELSE "polling",
                        ![v].polls = IF @ < MaxPolls THEN @ + 1 ELSE @]
    /\ UNCHANGED <<storeVars, isLoading, error, activeTab, completedCrop,
                   gateVars, asyncVars, used, refVars, toolVars, videoResult,
                   isExtendingVideo, videoLastFrame, extracts, videoUrls>>
    /\ SelectorState
    /\ ImageUrlEffect
    /\ UNCHANGED apiVars

\* a result that is dropped
VideoResolvedDropped(v) ==
    /\ v \in 1..Len(videoReqs)
    /\ videoReqs[v].status = "done"
    /\ isLoading' = FALSE
    /\ videoReqs' = Remove(videoReqs, v)
    /\ UNCHANGED <<storeVars, error, activeTab, completedCrop, gateVars,
                   asyncVars, used, refVars, toolVars, isExtendingVideo,
                   videoLastFrame, extracts, videoResult, videoUrls>>
    /\ SelectorState
    /\ ImageUrlEffect
    /\ UNCHANGED apiVars

\* generateVideoFromImage resolves (the operation is done, without error,
\* and the video is downloaded): setVideoResult with a new object URL, then
\* finally
VideoResolved(v) ==
    /\ v \in 1..Len(videoReqs)
    /\ videoReqs[v].status = "done"
    /\ LET videoBlob == VideoOf(videoReqs[v].seed)
           url == NewUrl(videoUrls, videoBlob)
       IN  /\ videoResult' = <<[url |-> url, blob |-> videoBlob]>>
           /\ videoUrls' = videoUrls \cup {url}
    /\ isLoading' = FALSE
    /\ videoReqs' = Remove(videoReqs, v)
    /\ UNCHANGED <<storeVars, error, activeTab, completedCrop, gateVars,
                   asyncVars, used, refVars, toolVars, isExtendingVideo,
                   videoLastFrame, extracts>>
    /\ SelectorState
    /\ ImageUrlEffect
    /\ UNCHANGED apiVars

\* generateVideoFromImage rejects (a call of the service rejects while the
\* operation is started or polled, or the operation is done with an error,
\* without a link, or the download fails): the catch block and finally
VideoRejected(v, err) ==
    /\ v \in 1..Len(videoReqs)
    /\ error' = ErrorOf(MessageOf(err), 0)
    /\ isLoading' = FALSE
    /\ videoReqs' = Remove(videoReqs, v)
    /\ UNCHANGED <<storeVars, activeTab, completedCrop, gateVars, asyncVars,
                   used, refVars, toolVars, videoResult, isExtendingVideo,
                   videoLastFrame, extracts, videoUrls>>
    /\ SelectorState
    /\ ImageUrlEffect
    /\ UNCHANGED apiVars

\* a way back that drops the video and keeps its URL
handleBackToEditorLeaking ==
    /\ Screen \in {"video", "extend"}
    /\ ~isLoading
    /\ videoResult' = <<>>
    /\ isExtendingVideo' = FALSE
    /\ videoLastFrame' = <<>>
    /\ UNCHANGED <<storeVars, isLoading, error, activeTab, completedCrop,
                   gateVars, asyncVars, used, refVars, toolVars, videoReqs,
                   extracts, videoUrls>>
    /\ SelectorState
    /\ ImageUrlEffect
    /\ UNCHANGED apiVars

\* Back to Editor of the video screen and Cancel of VideoExtendPanel
handleBackToEditor ==
    /\ Screen \in {"video", "extend"}
    /\ ~isLoading
    /\ BackToEditor
    /\ UNCHANGED <<storeVars, isLoading, error, activeTab, completedCrop,
                   gateVars, asyncVars, used, refVars, toolVars, videoReqs,
                   extracts>>
    /\ SelectorState
    /\ ImageUrlEffect
    /\ UNCHANGED apiVars

\* Create Follow-up Video: handleStartExtendVideo up to its await
handleStartExtendVideo ==
    /\ Screen = "video"
    /\ ~isLoading
    /\ videoResult # <<>>
    /\ used < MaxOps
    /\ isLoading' = TRUE
    /\ extracts' = Append(extracts, [blob |-> videoResult[1].blob])
    /\ used' = used + 1
    /\ UNCHANGED <<storeVars, error, activeTab, completedCrop, gateVars,
                   asyncVars, refVars, toolVars, videoResult,
                   isExtendingVideo, videoLastFrame, videoReqs, videoUrls>>
    /\ SelectorState
    /\ ImageUrlEffect
    /\ UNCHANGED apiVars

\* extractLastFrame resolves; its own object URL is made and revoked inside
ExtractResolved(e) ==
    /\ e \in 1..Len(extracts)
    /\ videoLastFrame' = <<FrameOf(extracts[e].blob)>>
    /\ isExtendingVideo' = TRUE
    /\ isLoading' = FALSE
    /\ extracts' = Remove(extracts, e)
    /\ UNCHANGED <<storeVars, error, activeTab, completedCrop, gateVars,
                   asyncVars, used, refVars, toolVars, videoResult,
                   videoReqs, videoUrls>>
    /\ SelectorState
    /\ ImageUrlEffect
    /\ UNCHANGED apiVars

\* a failed extraction that gives the video up
ExtractRejectedToEditor(e, err) ==
    /\ e \in 1..Len(extracts)
    /\ error' = ErrorOf(ExtractMessageOf(err), 0)
    /\ isLoading' = FALSE
    /\ extracts' = Remove(extracts, e)
    /\ BackToEditor
    /\ UNCHANGED <<storeVars, activeTab, completedCrop, gateVars, asyncVars,
                   used, refVars, toolVars, videoReqs>>
    /\ SelectorState
    /\ ImageUrlEffect
    /\ UNCHANGED apiVars

\* extractLastFrame rejects: the catch block and finally
ExtractRejected(e, err) ==
    /\ e \in 1..Len(extracts)
    /\ error' = ErrorOf(ExtractMessageOf(err), 0)
    /\ isLoading' = FALSE
    /\ extracts' = Remove(extracts, e)
    /\ UNCHANGED <<storeVars, activeTab, completedCrop, gateVars, asyncVars,
                   used, refVars, toolVars, videoResult,
                   isExtendingVideo, videoLastFrame, videoReqs, videoUrls>>
    /\ SelectorState
    /\ ImageUrlEffect
    /\ UNCHANGED apiVars

\* ------------------------------------------------------------------ spec
\* the component's state after construction
InitApp ==
    /\ history = <<>>
    /\ historyIndex = -1
    /\ isBatchMode = FALSE
    /\ batchImages = <<>>
    /\ activeIndex = 0
    /\ isLoading = FALSE
    /\ error = NoError
    /\ activeTab = "retouch"
    /\ completedCrop = FALSE
    /\ variationImages = <<>>
    /\ pendingAction = <<>>
    /\ varReqs = <<>>
    /\ batchRuns = <<>>
    /\ zips = 0
    /\ timers = 0
    /\ selectedIndex = 0
    /\ prompt = ""
    /\ editHotspot = <<>>
    /\ displayHotspot = <<>>
    /\ hotspotOn = Undef
    /\ videoResult = <<>>
    /\ isExtendingVideo = FALSE
    /\ videoLastFrame = <<>>
    /\ videoReqs = <<>>
    /\ extracts = <<>>
    /\ videoUrls = {}
    /\ currentImageUrl = <<>>
    /\ liveUrls = {}
    /\ used = 0
    /\ lastUpload = Undef
    /\ refHistory = <<>>
    /\ refCursor = -1

Init ==
    /\ InitApp
    /\ response = <<>>
    /\ apiResult = <<>>

Next ==
    \/ \E files \in Selections : handleFileSelect(files)
    \/ \E tab \in Tabs : setActiveTab(tab)
    \/ Undo
    \/ Redo
    \/ Reset
    \/ resetState
    \/ \E i \in 0..(MaxFiles - 1) : setActiveIndex(i)
    \/ setCompletedCrop
    \/ handleApplyCrop
    \/ handleGenerateVariations
    \/ \E r \in 1..MaxOps : GenerateCallResolved(r)
    \/ \E r \in 1..MaxOps : VariationsResolved(r)
    \/ \E r \in 1..MaxOps, err \in Failures : VariationsRejected(r, err)
    \/ \E index \in 0..(MaxPreview - 1) : setSelectedIndex(index)
    \/ \E i \in 1..NumVariations : handleVariationSelected(i)
    \/ handleVariationCancel
    \/ handleBatchApply
    \/ \E b \in 1..MaxOps : BatchStepResolved(b)
    \/ \E b \in 1..MaxOps : BatchStepRejected(b)
    \/ BatchTimerFired
    \/ handleDownloadZip
    \/ ZipResolved
    \/ ZipRejected
    \/ DismissError

Spec == Init /\ [][Next]_vars


\* The history store alone: one image is uploaded, then commits (crop,
\* confirmed variations), undo and redo, with the requests' completions.
NextHistory ==
    \/ \E files \in {f \in Selections : Len(f) <= 1} : handleFileSelect(files)
    \/ \E tab \in Tabs : setActiveTab(tab)
    \/ Undo
    \/ Redo
    \/ setCompletedCrop
    \/ handleApplyCrop
    \/ handleGenerateVariations
    \/ \E r \in 1..MaxOps : GenerateCallResolved(r)
    \/ \E r \in 1..MaxOps : VariationsResolved(r)
    \/ \E r \in 1..MaxOps, err \in Failures : VariationsRejected(r, err)
    \/ \E index \in 0..(MaxPreview - 1) : setSelectedIndex(index)
    \/ \E i \in 1..NumVariations : handleVariationSelected(i)
    \/ handleVariationCancel
    \/ DismissError

SpecHistory == Init /\ [][NextHistory]_vars

\* The variation gate on a loaded batch: the state right after two files
\* have been loaded from the start screen (the operations counted are those
\* started after the load), then variation requests, the selector, the zip
\* download and the error panel.
InitLoaded ==
    /\ history = <<>>
    /\ historyIndex = -1
    /\ isBatchMode = TRUE
    /\ batchImages = PairsOf(<<UploadFile(1), UploadFile(2)>>)
    /\ activeIndex = 0
    /\ isLoading = FALSE
    /\ error = NoError
    /\ activeTab = "adjust"
    /\ completedCrop = FALSE
    /\ variationImages = <<>>
    /\ pendingAction = <<>>
    /\ varReqs = <<>>
    /\ batchRuns = <<>>
    /\ zips = 0
    /\ timers = 0
    /\ selectedIndex = 0
    /\ prompt = ""
    /\ editHotspot = <<>>
    /\ displayHotspot = <<>>
    /\ hotspotOn = Undef
    /\ videoResult = <<>>
    /\ isExtendingVideo = FALSE
    /\ videoLastFrame = <<>>
    /\ videoReqs = <<>>
    /\ extracts = <<>>
    /\ videoUrls = {}
    /\ currentImageUrl = <<[id |-> 1, of |-> UploadFile(1)]>>
    /\ liveUrls = {[id |-> 1, of |-> UploadFile(1)]}
    /\ used = 0
    /\ lastUpload = Undef
    /\ refHistory = <<>>
    /\ refCursor = -1
    /\ response = <<>>
    /\ apiResult = <<>>

NextGate ==
    \/ \E i \in 0..(MaxFiles - 1) : setActiveIndex(i)
    \/ handleGenerateVariations
    \/ \E r \in 1..MaxOps : GenerateCallResolved(r)
    \/ \E r \in 1..MaxOps : VariationsResolved(r)
    \/ \E r \in 1..MaxOps, err \in Failures : VariationsRejected(r, err)
    \/ \E index \in 0..(MaxPreview - 1) : setSelectedIndex(index)
    \/ \E i \in 1..NumVariations : handleVariationSelected(i)
    \/ handleVariationCancel
    \/ handleDownloadZip
    \/ ZipResolved
    \/ ZipRejected
    \/ DismissError

SpecGate == InitLoaded /\ [][NextGate]_vars

\* ================================================================ claims

\* the commit law of a linear history: the entries up to the cursor, then x,
\* with the cursor on x
CommitLaw(x) ==
    /\ history' = Append(SubSeq(history, 1, historyIndex + 1), x)
    /\ historyIndex' = Len(history') - 1

\* C1: in single-image mode every commit (Apply Crop, or the confirmation of
\* a variation) turns history H with cursor c into H[0..c] followed by the
\* new file, the cursor on that new last entry, so no entry is left to redo.
C1_CommitTruncates ==
    [][ /\ (~isBatchMode /\ handleApplyCrop) => CommitLaw(CroppedFile)
        /\ \A i \in 1..NumVariations :
              (~isBatchMode /\ handleVariationSelected(i))
                  => CommitLaw(variationImages[i]) ]_vars

\* C2: the commit made on confirming a variation acts on the history and
\* cursor of the moment of confirmation: when the history is the one the
\* request was made on and only the cursor may have moved since (undo, redo,
\* reset), the new history ends right after the present cursor position with
\* the confirmed file, and the entries up to the present cursor are kept.
C2_ConfirmAtPresentCursor ==
    [][ \A i \in 1..NumVariations :
           ( /\ ~isBatchMode
             /\ pendingAction # <<>>
             /\ pendingAction[1].history = history
             /\ handleVariationSelected(i) )
               => /\ Len(history') = historyIndex + 2
                  /\ history'[Len(history')] = variationImages[i]
                  /\ \A k \in 1..(historyIndex + 1) : history'[k] = history[k]
      ]_vars

\* C3: undo at cursor 0 and redo at the last entry change nothing of the
\* component's state; anywhere else undo moves the cursor down by exactly
\* one and redo up by exactly one; neither changes the history sequence.
C3_UndoRedoSteps ==
    [][ /\ Undo => /\ history' = history
                   /\ IF historyIndex = 0
                      THEN UNCHANGED progVars
                      ELSE historyIndex' = historyIndex - 1
        /\ Redo => /\ history' = history
                   /\ IF historyIndex = Len(history) - 1
                      THEN UNCHANGED progVars
                      ELSE historyIndex' = historyIndex + 1 ]_vars

\* C3 witness: the cursor stands strictly inside a history of three entries,
\* where only an undo or a redo by one can have put it
C3_Witness ==
    /\ Screen = "editor"
    /\ ~isBatchMode
    /\ Len(history) = 3
    /\ historyIndex = 1


\* the cursor after n successive redo steps
RECURSIVE RedoTimes(_, _, _)
RedoTimes(h, idx, n) ==
    IF n = 0 THEN idx ELSE RedoTimes(h, RedoIndex(h, idx), n - 1)

\* C4: Reset puts the cursor on entry 0 and leaves the history sequence as
\* it was, so length-1 redo steps from there arrive at the former last entry.
C4_ResetKeepsHistory ==
    [][ Reset =>
          /\ historyIndex' = 0
          /\ history' = history
          /\ At(history', RedoTimes(history', historyIndex', Len(history) - 1))
                = history[Len(history)]
          /\ RedoTimes(history', historyIndex', Len(history) - 1)
                = Len(history) - 1 ]_vars

\* C4 witness: the cursor is on entry 0 of a history of three entries whose
\* last entry is still there to be reached by two redo steps
C4_Witness ==
    /\ Screen = "editor"
    /\ ~isBatchMode
    /\ Len(history) = 3
    /\ historyIndex = 0
    /\ RedoTimes(history, historyIndex, 2) = 2

\* C5: after an upload, whatever commits, undos and redos follow, the
\* current image is current() of the reference linear history (array and
\* cursor, truncate on commit) stepped with the same operations
\* (checked under SpecHistory, whose only store operations are these).
C5_CurrentMatchesReference ==
    (~isBatchMode /\ refHistory # <<>>)
        => At(history, historyIndex) = At(refHistory, refCursor)

\* C6: in single-image mode, once a file has been uploaded, entry 0 of the
\* history is the file of the most recent upload.
C6_EntryZeroIsLastUpload ==
    (~isBatchMode /\ history # <<>> /\ lastUpload # Undef)
        => history[1] = lastUpload

\* C7: the cursor is consistent with the history in every state: the history
\* is empty exactly when the cursor is -1, a non-empty history has its cursor
\* within 0..length-1, and so the entry at the cursor is absent exactly when
\* the history is empty.
C7_CursorInRange ==
    /\ (history = <<>>) <=> (historyIndex = -1)
    /\ history # <<>> => (0 <= historyIndex /\ historyIndex <= Len(history) - 1)
    /\ (At(history, historyIndex) = Undef) <=> (history = <<>>)

\* C7 witness: a history of several entries with the cursor on an entry
\* after the first and before the last
C7_Witness ==
    /\ Len(history) >= 3
    /\ historyIndex > 0
    /\ historyIndex < Len(history) - 1
    /\ At(history, historyIndex) # Undef

\* C8: a selection of two or more files makes the batch collection exactly
\* one pair per file, in order, edited equal to original, with active index 0
\* and batch mode on; a selection of one file gives single-image mode with
\* history = [file] and cursor 0; an empty selection changes nothing.
\* (Files are selected on the start screen only.)
C8_FileSelect ==
    [][ Screen = "start" =>
        \A files \in Selections :
          handleFileSelect(files) =>
            /\ Len(files) > 1 =>
                 /\ isBatchMode'
                 /\ activeIndex' = 0
                 /\ Len(batchImages') = Len(files)
                 /\ \A k \in 1..Len(files) :
                       /\ batchImages'[k].original = files[k]
                       /\ batchImages'[k].edited = files[k]
            /\ Len(files) = 1 =>
                 /\ ~isBatchMode'
                 /\ history' = <<files[1]>>
                 /\ historyIndex' = 0
            /\ Len(files) = 0 => UNCHANGED progVars ]_vars

\* C8 witness: batch mode just loaded with three files, each pair unedited,
\* the first one active
C8_Witness ==
    /\ isBatchMode
    /\ activeIndex = 0
    /\ Len(batchImages) = 3
    /\ \A k \in 1..3 : /\ batchImages[k].original = UploadFile(k)
                       /\ batchImages[k].edited = UploadFile(k)

\* C9: in batch mode a commit replaces edited of the pair at the active
\* index and leaves every other pair, that pair's original, the length of
\* the collection and the active index as they were.
C9_BatchCommitFrame ==
    [][ \A i \in 1..NumVariations :
           (isBatchMode /\ handleVariationSelected(i)) =>
              /\ activeIndex' = activeIndex
              /\ batchImages' = [batchImages EXCEPT
                                    ![activeIndex + 1].edited = variationImages[i]]
      ]_vars

\* C10: between one load and the next load or exit from batch mode, the
\* original of every pair stays what it is: no variation commit and no step
\* of a batch apply, successful or failed, changes an original.
C10_OriginalImmutable ==
    [][ ( /\ isBatchMode
          /\ \/ \E i \in 1..NumVariations : handleVariationSelected(i)
             \/ \E b \in 1..MaxOps : BatchStepResolved(b)
             \/ \E b \in 1..MaxOps : BatchStepRejected(b) )
        => \A k \in 1..Len(batchImages) :
              /\ k <= Len(batchImages')
              /\ batchImages'[k].original = batchImages[k].original ]_vars

\* C11: whenever the batch collection is non-empty the active index is an
\* index of it, 0 <= activeIndex < length, also after a later upload has
\* replaced the collection or a batch apply still in flight has written it.
C11_ActiveIndexInRange ==
    batchImages # <<>>
        => (0 <= activeIndex /\ activeIndex < Len(batchImages))

\* C12: a batch apply goes through the pairs in index order.  A call that
\* succeeds writes edited of its own pair only and the run goes on with the
\* next index; the first call that fails ends the run (no call for a later
\* pair), changes no pair (the failed one and the later ones keep their
\* edited, the earlier ones keep their new edited), sets the error and
\* clears loading.
C12_BatchApplyAbortsOnFailure ==
    [][ \A b \in 1..MaxOps :
          /\ BatchStepRejected(b) =>
               LET run == batchRuns[b]
               IN  /\ batchRuns' = Remove(batchRuns, b)
                   /\ batchImages' = batchImages
                   /\ \A k \in 1..run.i :
                         run.snap[k].edited = AppliedFile(run.snap[k].original)
                   /\ error' # NoError
                   /\ ~isLoading'
          /\ BatchStepResolved(b) =>
               LET run == batchRuns[b]
               IN  /\ Len(batchImages') = Len(run.snap)
                   /\ \A k \in 1..Len(run.snap) :
                         IF k = run.i + 1
                         THEN batchImages'[k] =
                                 [original |-> run.snap[k].original,
                                  edited |-> AppliedFile(run.snap[k].original)]
                         ELSE batchImages'[k] = run.snap[k]
                   /\ Len(batchRuns') = Len(batchRuns) =>
                         /\ batchRuns'[Len(batchRuns')].i = run.i + 1
                         /\ batchRuns'[Len(batchRuns')].snap = batchImages'
      ]_vars

\* C12 witness: a batch apply over three pairs has failed at its third call:
\* the first two pairs hold their results, the third is as loaded, the error
\* is set, loading is cleared and no call is in flight
C12_Witness ==
    /\ isBatchMode
    /\ Len(batchImages) = 3
    /\ batchImages[1].edited = AppliedFile(batchImages[1].original)
    /\ batchImages[2].edited = AppliedFile(batchImages[2].original)
    /\ batchImages[3].edited = batchImages[3].original
    /\ error.kind = "batch"
    /\ ~isLoading
    /\ batchRuns = <<>>

\* C13 as stated: the number in the error message of a failed batch apply is
\* the index of the pair whose call failed, counted as the pairs are (from
\* 0): with pairs 0 and 1 updated and pair 2 unchanged it names image 2.
C13_MessageNamesPairIndex ==
    [][ \A b \in 1..MaxOps :
          BatchStepRejected(b) => error' = ErrorOf("batch", batchRuns[b].i)
      ]_vars

\* C13 amended: the number in the error message is the index of the failed
\* pair plus one (images are counted from 1 in messages, pairs from 0): when
\* the call for pair i fails the message names image i + 1, so with pairs 0
\* and 1 updated and pair 2 unchanged it names image 3.
C13_MessageNamesIndexPlusOne ==
    [][ \A b \in 1..MaxOps :
          BatchStepRejected(b) =>
              /\ error' = ErrorOf("batch", batchRuns[b].i + 1)
              /\ batchImages' = batchImages
      ]_vars

\* C13 witness: over three images the call for pair 2 has failed: pairs 0
\* and 1 hold their results, pair 2 is as loaded, the message names image 3
C13_Witness ==
    /\ Len(batchImages) = 3
    /\ \A k \in 1..2 : batchImages[k].edited = AppliedFile(UploadFile(k))
    /\ batchImages[3].edited = UploadFile(3)
    /\ error = ErrorOf("batch", 3)

\* C14: a batch apply is strictly sequential.  It has one call in flight at
\* a time: starting it issues the call for pair 0 and nothing else, the call
\* for pair i + 1 is issued in the step in which the call for pair i has
\* succeeded, taking that call's place, and a failed call is followed by
\* none.  The input of every call is the original of its pair, so the step
\* that ends a fully successful batch apply leaves every edited equal to the
\* operation's result on that pair's original, whatever edited was before.
C14_BatchApplySequential ==
    [][ /\ handleBatchApply =>
              \/ batchRuns' = batchRuns
              \/ /\ Len(batchRuns') = Len(batchRuns) + 1
                 /\ batchRuns'[Len(batchRuns')].i = 0
        /\ \A b \in 1..MaxOps :
              /\ BatchStepRejected(b) => Len(batchRuns') = Len(batchRuns) - 1
              /\ BatchStepResolved(b) =>
                   LET run == batchRuns[b]
                   IN  /\ batchImages'[run.i + 1].edited
                             = AppliedFile(run.snap[run.i + 1].original)
                       /\ \/ Len(batchRuns') = Len(batchRuns) - 1
                          \/ /\ Len(batchRuns') = Len(batchRuns)
                             /\ batchRuns'[Len(batchRuns')].i = run.i + 1
                       /\ timers' = timers + 1 =>
                             \A k \in 1..Len(batchImages') :
                                batchImages'[k].edited
                                   = AppliedFile(run.snap[k].original)
      ]_vars

\* C14 witness: a batch apply over three pairs has run to its end: no call
\* is in flight, the closing timer is pending and every edited is the
\* result on its pair's original
C14_Witness ==
    /\ isBatchMode
    /\ batchRuns = <<>>
    /\ timers > 0
    /\ Len(batchImages) = 3
    /\ \A k \in 1..3 :
          batchImages[k] = [original |-> UploadFile(k),
                            edited |-> AppliedFile(UploadFile(k))]

C16_ConfirmCommitsOnce ==
    [][ \A i \in 1..NumVariations :
          handleVariationSelected(i) =>
            /\ pendingAction # <<>>
            /\ LET cl == pendingAction[1]
                   x == variationImages[i]
               IN  IF cl.isBatchMode
                   THEN /\ UNCHANGED <<history, historyIndex>>
                        /\ batchImages'[cl.activeIndex + 1].edited = x
                        /\ \A k \in 1..Len(batchImages) :
                              k # cl.activeIndex + 1
                                 => batchImages'[k] = batchImages[k]
                   ELSE /\ batchImages' = batchImages
                        /\ Len(history') = cl.historyIndex + 2
                        /\ history'[Len(history')] = x
                        /\ \A k \in 1..(Len(history') - 1) :
                              history'[k] = cl.history[k]
            /\ variationImages' = <<>>
            /\ pendingAction' = <<>>
            /\ Screen' # "gate"
      ]_vars

\* C16 witness: candidate 1 (the second thumbnail) has just been confirmed
\* on an upload: it is the last entry, under the cursor, and the gate is
\* closed
C16_Witness ==
    /\ ~isBatchMode
    /\ history = <<UploadFile(1), VariationFile(2)>>
    /\ historyIndex = 1
    /\ variationImages = <<>>
    /\ pendingAction = <<>>

\* C17: cancelling closes the gate and discards the candidates without a
\* commit, and history, cursor, batch collection and active index are then
\* exactly as before the gate opened: neither the cancel step nor any step
\* taken while the gate stays open changes any of them.
C17_CancelRestores ==
    [][ /\ handleVariationCancel =>
              /\ UNCHANGED storeVars
              /\ variationImages' = <<>>
              /\ pendingAction' = <<>>
        /\ (variationImages # <<>> /\ variationImages' # <<>>) =>
              UNCHANGED storeVars
      ]_vars

\* C18: a preview is a self-loop on the open gate: it makes the clicked
\* candidate the displayed one and changes nothing else; the gate stays
\* open with the same candidate list and commit function, and history,
\* cursor and batch collection are as they were, so nothing is committed.
C18_PreviewSelfLoop ==
    [][ \A index \in 0..(NumVariations - 1) :
          setSelectedIndex(index) =>
            /\ variationImages # <<>>
            /\ selectedIndex' = index
            /\ At(variationImages', selectedIndex') = variationImages[index + 1]
            /\ UNCHANGED <<gateVars, storeVars>>
            /\ UNCHANGED progVars
            /\ Screen' = "gate"
      ]_vars

\* C18 witness: the gate is on the screen and a candidate other than the
\* first is displayed, which only a preview brings about
C18_Witness ==
    /\ Screen = "gate"
    /\ selectedIndex = 1
    /\ Len(variationImages) = NumVariations
    /\ pendingAction # <<>>

\* C19: at most one set of candidates is open at a time, and whenever a step
\* puts a candidate list into the gate, also in place of a list that was
\* open, the candidate displayed afterwards is index 0 of the new list.
C19_OpensAtIndexZero ==
    [][ \A r \in 1..MaxOps :
          VariationsResolved(r) =>
            /\ variationImages' = VariationFiles
            /\ pendingAction' = <<varReqs[r].cl>>
            /\ selectedIndex' = 0
      ]_vars

\* C20: when a variations request fails with an Error (a rejection by the
\* collaborator or a transport failure), loading becomes false, the error
\* state is that Error's message as it is, the request is over with no
\* other request started in its place, and the gate, history, cursor, batch
\* collection and active index are unchanged.
C20_RequestFailure ==
    [][ \A r \in 1..MaxOps, err \in Failures :
          (err.isError /\ VariationsRejected(r, err)) =>
            /\ ~isLoading'
            /\ error'.kind = err.message
            /\ varReqs' = Remove(varReqs, r)
            /\ UNCHANGED <<batchRuns, zips, timers>>
            /\ UNCHANGED gateVars
            /\ UNCHANGED storeVars
      ]_vars

\* C20 witness: a request on an uploaded image has failed: its message is
\* the error, loading is off, nothing is in flight, the gate is closed and
\* the history is the upload alone
C20_Witness ==
    /\ error = ErrorOf("request failed", 0)
    /\ ~isLoading
    /\ varReqs = <<>>
    /\ variationImages = <<>>
    /\ history = <<UploadFile(1)>>
    /\ historyIndex = 0


\* The editor on one uploaded image: the state right after one file has
\* been loaded from the start screen (the operations counted are those
\* started after the load), then the retouch tool, the panels' requests,
\* the variation gate, crop, undo, redo, reset, the video flow, uploads and
\* the error panel.
InitEditor ==
    /\ history = <<UploadFile(1)>>
    /\ historyIndex = 0
    /\ isBatchMode = FALSE
    /\ batchImages = <<>>
    /\ activeIndex = 0
    /\ isLoading = FALSE
    /\ error = NoError
    /\ activeTab = "retouch"
    /\ completedCrop = FALSE
    /\ variationImages = <<>>
    /\ pendingAction = <<>>
    /\ varReqs = <<>>
    /\ batchRuns = <<>>
    /\ zips = 0
    /\ timers = 0
    /\ selectedIndex = 0
    /\ prompt = ""
    /\ editHotspot = <<>>
    /\ displayHotspot = <<>>
    /\ hotspotOn = Undef
    /\ videoResult = <<>>
    /\ isExtendingVideo = FALSE
    /\ videoLastFrame = <<>>
    /\ videoReqs = <<>>
    /\ extracts = <<>>
    /\ videoUrls = {}
    /\ currentImageUrl = <<[id |-> 1, of |-> UploadFile(1)]>>
    /\ liveUrls = {[id |-> 1, of |-> UploadFile(1)]}
    /\ used = 0
    /\ lastUpload = UploadFile(1)
    /\ refHistory = <<UploadFile(1)>>
    /\ refCursor = 0
    /\ response = <<>>
    /\ apiResult = <<>>



\* what the user may have put into the panels: a reference image or none,
\* additional character images
ReferenceImages == {<<>>, <<UploadFile(2)>>}
AdditionalImages == {<<>>, <<UploadFile(2)>>}

\* The requests of the editor on one uploaded image: the retouch tool and
\* the panels with their requests, how the requests end, the video flow,
\* uploads and the error panel.
NextStudio ==
    \/ \E files \in Selections : handleFileSelect(files)
    \/ \E tab \in Tabs : setActiveTab(tab)
    \/ resetState
    \/ \E offset \in Clicks, size \in ImgSizes : handleImageClick(offset, size)
    \/ \E p \in Prompts : setPrompt(p)
    \/ handleGenerate
    \/ \E referenceImage \in ReferenceImages :
          ReferencePanel_handleApply(referenceImage)
    \/ \E additionalImages \in AdditionalImages, p \in Prompts :
          CharacterPanel_handleGenerate(additionalImages, p)
    \/ \E p \in Prompts : ImageToVideoPanel_handleGenerate(p)
    \/ \E p \in Prompts : VideoExtendPanel_handleGenerate(p)
    \/ \E r \in 1..MaxOps : GenerateCallResolved(r)
    \/ \E r \in 1..MaxOps : VariationsResolved(r)
    \/ \E r \in 1..MaxOps, err \in Failures : VariationsRejected(r, err)
    \/ handleVariationCancel
    \/ \E v \in 1..MaxOps, done \in BOOLEAN : OperationStarted(v, done)
    \/ \E v \in 1..MaxOps, done \in BOOLEAN : Poll(v, done)
    \/ \E v \in 1..MaxOps : VideoResolved(v)
    \/ \E v \in 1..MaxOps, err \in Failures : VideoRejected(v, err)
    \/ handleBackToEditor
    \/ handleStartExtendVideo
    \/ \E e \in 1..MaxOps : ExtractResolved(e)
    \/ \E e \in 1..MaxOps, err \in ExtractFailures : ExtractRejected(e, err)
    \/ DismissError

SpecStudio == InitEditor /\ [][NextStudio]_vars

\* The retouch tool on one uploaded image: clicks on the image, the
\* prompt, the tabs, retouch requests and the gate, crop, undo, redo,
\* reset and uploads.
NextRetouch ==
    \/ \E files \in Selections : handleFileSelect(files)
    \/ \E tab \in Tabs : setActiveTab(tab)
    \/ Undo
    \/ Redo
    \/ Reset
    \/ resetState
    \/ setCompletedCrop
    \/ handleApplyCrop
    \/ \E offset \in Clicks, size \in ImgSizes : handleImageClick(offset, size)
    \/ \E p \in Prompts : setPrompt(p)
    \/ handleGenerate
    \/ \E r \in 1..MaxOps : GenerateCallResolved(r)
    \/ \E r \in 1..MaxOps : VariationsResolved(r)
    \/ \E r \in 1..MaxOps, err \in Failures : VariationsRejected(r, err)
    \/ \E i \in 1..NumVariations : handleVariationSelected(i)
    \/ handleVariationCancel
    \/ DismissError

SpecRetouch == InitEditor /\ [][NextRetouch]_vars


\* ------------------------------------------------------------------ C21
\* a prompt that is empty or white space only
IsBlank(p) == p \in {"", " "}

\* C21: a request whose preconditions fail is not dispatched and changes no
\* state: retouch without a hotspot or with a blank prompt, reference
\* without a reference image, character with fewer than 2 images in total
\* or a blank prompt, video and follow-up video with a blank prompt; and no
\* variations request is dispatched while there is no current image.
C21_RefusedRequestChangesNothing ==
    [][ /\ ( \/ (handleGenerate /\ (IsBlank(prompt) \/ editHotspot = <<>>))
             \/ ReferencePanel_handleApply(<<>>)
             \/ \E additionalImages \in AdditionalImages, p \in Prompts :
                   /\ Len(additionalImages) + 1 < 2 \/ IsBlank(p)
                   /\ CharacterPanel_handleGenerate(additionalImages, p)
             \/ \E p \in Prompts :
                   IsBlank(p) /\ ImageToVideoPanel_handleGenerate(p)
             \/ \E p \in Prompts :
                   IsBlank(p) /\ VideoExtendPanel_handleGenerate(p) )
           => /\ UNCHANGED vars
              /\ ~isLoading /\ ~isLoading'
        /\ currentImage = Undef => ~handleGenerateVariations
      ]_vars

\* the retouch tab with a hotspot set and a prompt of white space only,
\* nothing loading
C21_Witness ==
    /\ Screen = "editor"
    /\ activeTab = "retouch"
    /\ ~isLoading
    /\ editHotspot # <<>>
    /\ prompt = " "

\* ------------------------------------------------------------------ C22
\* C22: after every commit from the variation gate and after every cancel
\* of the gate, the edit hotspot, the display hotspot and the crop
\* selection are cleared.
C22_GateClearsHotspotAndCrop ==
    [][ ( \/ \E i \in 1..NumVariations :
                handleVariationSelected(i) /\ pendingAction # <<>>
          \/ handleVariationCancel )
        => /\ editHotspot' = <<>>
           /\ displayHotspot' = <<>>
           /\ ~completedCrop'
      ]_vars

\* ------------------------------------------------------------------ C23
\* C23: the edit hotspot is set only while the retouch tool is active and
\* was set on the image now displayed (it is cleared whenever the active
\* tool or the current image changes).
C23_HotspotOfRetouchAndCurrentImage ==
    editHotspot # <<>> =>
        /\ activeTab = "retouch"
        /\ hotspotOn = currentImage

\* ------------------------------------------------------------------ C24
\* C24: the commit function of the gate writes into the store of the mode
\* current at confirmation: in single-image mode the confirmed file becomes
\* the last entry of the history and the batch collection is untouched, in
\* batch mode it becomes edited of the pair active at confirmation and the
\* history is untouched; also when the mode or the active index changed
\* while the request was in flight.
C24_CommitIntoStoreOfPresentMode ==
    [][ \A i \in 1..NumVariations :
           (pendingAction # <<>> /\ handleVariationSelected(i)) =>
              IF isBatchMode
              THEN /\ activeIndex + 1 \in 1..Len(batchImages')
                   /\ batchImages'[activeIndex + 1].edited = variationImages[i]
                   /\ UNCHANGED <<history, historyIndex>>
              ELSE /\ Len(history') = Len(SubSeq(history, 1, historyIndex + 1)) + 1
                   /\ history'[Len(history')] = variationImages[i]
                   /\ UNCHANGED batchImages
      ]_vars

\* ------------------------------------------------------------------ C25
\* the state of the video flow, read off the component's state
VideoFlow ==
    IF videoReqs # <<>> THEN "generating"
    ELSE IF extracts # <<>> THEN "extractingFrame"
    ELSE IF isExtendingVideo /\ videoLastFrame # <<>> THEN "extending"
    ELSE IF videoResult # <<>> THEN "reviewing"
    ELSE "idle"

\* a video request that was issued from the editor
FromEditor(v) == v \in 1..Len(videoReqs) /\ videoReqs[v].seed.kind # "frame"

C27_SeedOfVideoRequest ==
    [][ /\ \A p \in Prompts :
              (~IsBlank(p) /\ VideoExtendPanel_handleGenerate(p))
              => /\ VideoFlow = "extending"
                 /\ videoReqs' = Append(videoReqs,
                                        NewVideoRequest(videoLastFrame[1]))
                 /\ videoLastFrame[1] # currentImage
        /\ \A p \in Prompts :
              (~IsBlank(p) /\ ImageToVideoPanel_handleGenerate(p))
              => videoReqs' = Append(videoReqs, NewVideoRequest(currentImage))
      ]_vars

\* a follow-up request is pending on the last frame of the held video
C27_Witness ==
    /\ videoResult # <<>>
    /\ videoReqs = <<NewVideoRequest(FrameOf(videoResult[1].blob))>>
    /\ isLoading

\* ------------------------------------------------------------------ C28
\* C28: back to editor from reviewing revokes the display URL of the held
\* video, clears the held video, the extending flag and the extracted
\* frame, leaves history, cursor and batch collection unchanged, and the
\* flow is in idle.
C28_BackToEditor ==
    [][ (VideoFlow = "reviewing" /\ handleBackToEditor)
        => /\ videoResult[1].url \in videoUrls
           /\ videoUrls' = videoUrls \ {videoResult[1].url}
           /\ videoResult' = <<>>
           /\ ~isExtendingVideo'
           /\ videoLastFrame' = <<>>
           /\ UNCHANGED <<history, historyIndex, batchImages>>
           /\ VideoFlow' = "idle"
      ]_vars

\* a video is held for review, its URL live, and Back to Editor enabled
C28_Witness ==
    /\ VideoFlow = "reviewing"
    /\ Screen = "video"
    /\ ~isLoading
    /\ videoResult[1].url \in videoUrls

C30_NoVideoUrlLeft ==
    \A u \in videoUrls : videoResult # <<>> /\ videoResult[1].url = u

\* The video flow on one uploaded image with the steps of
\* generateVideoFromImage: the operation is started, polled and finishes;
\* last-frame extraction, follow-up requests, back to editor, the error
\* panel.
NextPolling ==
    \/ \E tab \in Tabs : setActiveTab(tab)
    \/ \E p \in Prompts : ImageToVideoPanel_handleGenerate(p)
    \/ \E p \in Prompts : VideoExtendPanel_handleGenerate(p)
    \/ \E v \in 1..MaxOps, done \in BOOLEAN : OperationStarted(v, done)
    \/ \E v \in 1..MaxOps, done \in BOOLEAN : Poll(v, done)
    \/ \E v \in 1..MaxOps : VideoResolved(v)
    \/ \E v \in 1..MaxOps, err \in Failures : VideoRejected(v, err)
    \/ handleBackToEditor
    \/ handleStartExtendVideo
    \/ \E e \in 1..MaxOps : ExtractResolved(e)
    \/ \E e \in 1..MaxOps, err \in ExtractFailures : ExtractRejected(e, err)
    \/ DismissError

\* the continuation of handleGenerateVideo after its await runs once
\* generateVideoFromImage has settled
VideoSettles ==
    \E v \in 1..MaxOps :
        \/ VideoResolved(v)
        \/ \E err \in Failures : VideoRejected(v, err)

SpecPolling == InitEditor /\ [][NextPolling]_vars /\ WF_vars(VideoSettles)

\* ------------------------------------------------------------------ C31
\* some call of generateVideoFromImage knows its operation to be done
SomeOperationDone ==
    \E v \in 1..Len(videoReqs) : videoReqs[v].status = "done"

C32_DismissClearsErrorOnly ==
    [][ DismissError
        => /\ error # NoError
           /\ error' = NoError
           /\ ~isLoading'
           /\ UNCHANGED <<history, historyIndex, isBatchMode, batchImages,
                          activeIndex, activeTab, completedCrop,
                          variationImages, pendingAction, prompt, editHotspot,
                          displayHotspot, videoResult, isExtendingVideo,
                          videoLastFrame, videoUrls>>
      ]_vars

\* the error of a failed batch apply is shown while the first pair carries
\* the edit applied before the failure
C32_Witness ==
    /\ Screen = "error"
    /\ isBatchMode
    /\ Len(batchImages) >= 2
    /\ batchImages[1].edited # batchImages[1].original
    /\ batchImages[2].edited = batchImages[2].original

\* ------------------------------------------------------------------ C33
\* C33: with two variations requests in flight, each one that succeeds puts
\* its own result into the gate, in place of a set that is open, so the gate
\* ends up with the result of the request that resolved last whatever the
\* order of issue; confirming or cancelling a set cancels no request, and a
\* request that resolves afterwards opens the gate again.
C33_LastResolvedWins ==
    [][ /\ \A r \in 1..MaxOps :
              VariationsResolved(r) =>
                 /\ variationImages' # <<>>
                 /\ pendingAction' = <<varReqs[r].cl>>
                 /\ Len(varReqs') = Len(varReqs) - 1
                 /\ \A o \in 1..Len(varReqs') :
                       varReqs'[o] = varReqs[IF o < r THEN o ELSE o + 1]
        /\ ( \/ handleVariationCancel
             \/ \E i \in 1..NumVariations : handleVariationSelected(i) )
           => /\ varReqs' = varReqs
              /\ variationImages' = <<>>
      ]_vars

\* the gate holds the result of one request while the other, issued on
\* another pair, is about to resolve over it
C33_Witness ==
    /\ Screen = "gate"
    /\ Len(varReqs) = 1
    /\ varReqs[1].resolved = NumVariations - 1
    /\ pendingAction # <<>>
    /\ varReqs[1].cl.activeIndex # pendingAction[1].activeIndex

\* ------------------------------------------------------------------ C34
\* The five dispatched operations from the start screen on, with every
\* await of theirs settling: the promises of the variations request, of the
\* batch apply's operation(), of zip.generateAsync(), of
\* generateVideoFromImage() and of extractLastFrame(), and the one-second
\* timer of a complete batch apply.
NextOps ==
    \/ \E files \in Selections : handleFileSelect(files)
    \/ \E tab \in Tabs : setActiveTab(tab)
    \/ handleGenerateVariations
    \/ \E r \in 1..MaxOps : GenerateCallResolved(r)
    \/ \E r \in 1..MaxOps : VariationsResolved(r)
    \/ \E r \in 1..MaxOps, err \in Failures : VariationsRejected(r, err)
    \/ handleVariationCancel
    \/ handleBatchApply
    \/ \E b \in 1..MaxOps : BatchStepResolved(b)
    \/ \E b \in 1..MaxOps : BatchStepRejected(b)
    \/ BatchTimerFired
    \/ handleDownloadZip
    \/ ZipResolved
    \/ ZipRejected
    \/ \E p \in Prompts : ImageToVideoPanel_handleGenerate(p)
    \/ \E p \in Prompts : VideoExtendPanel_handleGenerate(p)
    \/ \E v \in 1..MaxOps, done \in BOOLEAN : OperationStarted(v, done)
    \/ \E v \in 1..MaxOps, done \in BOOLEAN : Poll(v, done)
    \/ \E v \in 1..MaxOps : VideoResolved(v)
    \/ \E v \in 1..MaxOps, err \in Failures : VideoRejected(v, err)
    \/ handleStartExtendVideo
    \/ \E e \in 1..MaxOps : ExtractResolved(e)
    \/ \E e \in 1..MaxOps, err \in ExtractFailures : ExtractRejected(e, err)
    \/ DismissError

VariationsSettle ==
    \E r \in 1..MaxOps :
        \/ VariationsResolved(r)
        \/ \E err \in Failures : VariationsRejected(r, err)

BatchStepSettles ==
    \E b \in 1..MaxOps : BatchStepResolved(b) \/ BatchStepRejected(b)

ZipSettles == ZipResolved \/ ZipRejected

ExtractSettles ==
    \E e \in 1..MaxOps :
        \/ ExtractResolved(e)
        \/ \E err \in ExtractFailures : ExtractRejected(e, err)

SpecOps ==
    /\ Init
    /\ [][NextOps]_vars
    /\ WF_vars(VariationsSettle)
    /\ WF_vars(BatchStepSettles)
    /\ WF_vars(BatchTimerFired)
    /\ WF_vars(ZipSettles)
    /\ WF_vars(VideoSettles)
    /\ WF_vars(ExtractSettles)

\* an operation is outstanding: an await not yet settled or the timer of a
\* complete batch apply not yet fired
Outstanding ==
    \/ varReqs # <<>>
    \/ batchRuns # <<>>
    \/ timers > 0
    \/ zips > 0
    \/ videoReqs # <<>>
    \/ extracts # <<>>

\* the handlers that dispatch an operation
Dispatch ==
    \/ handleGenerateVariations
    \/ handleBatchApply
    \/ handleDownloadZip
    \/ \E p \in Prompts : ImageToVideoPanel_handleGenerate(p) /\ videoReqs' # videoReqs
    \/ \E p \in Prompts : VideoExtendPanel_handleGenerate(p) /\ videoReqs' # videoReqs
    \/ handleStartExtendVideo

\* C34: a dispatched operation sets loading to true when it starts (a batch
\* apply that fails before its first await has ended within the same step,
\* with the error set and loading false); the settling of an operation's
\* last await sets loading to false, on success and on failure, a complete
\* batch apply through its one-second timer; so, every await settling,
\* loading true leads to loading false.
C34_LoadingTrueThenFalse ==
    /\ [][ /\ Dispatch =>
                \/ isLoading' /\ Outstanding'
                \/ ~isLoading' /\ error' # NoError /\ batchRuns' = batchRuns
           /\ ( \/ \E r \in 1..MaxOps : VariationsResolved(r)
                \/ \E r \in 1..MaxOps, err \in Failures : VariationsRejected(r, err)
                \/ \E b \in 1..MaxOps : BatchStepRejected(b)
                \/ BatchTimerFired
                \/ ZipSettles
                \/ VideoSettles
                \/ ExtractSettles ) => ~isLoading'
           /\ \A b \in 1..MaxOps :
                 BatchStepResolved(b) =>
                    \/ Len(batchRuns') = Len(batchRuns) /\ isLoading' = isLoading
                    \/ timers' = timers + 1 /\ isLoading' = isLoading
                    \/ ~isLoading' /\ error' # NoError
         ]_vars
    /\ (isLoading ~> ~isLoading)

\* a batch apply went through all pairs and waits for its timer, loading
\* still true
C34_Witness ==
    /\ isLoading
    /\ timers > 0
    /\ batchRuns = <<>>
    /\ zips = 0
    /\ batchImages # <<>>
    /\ \A k \in 1..Len(batchImages) : batchImages[k].edited # batchImages[k].original

\* ------------------------------------------------------------------ C35
\* handleApiResponse (geminiService.ts): the responses it is applied to
MaxParts == 2
MaxCandidates == 2

Contexts == {"edit", "filter", "adjustment"}

\* promptFeedback?: absent, present without blockReason, present with one
PromptFeedbacks ==
    {<<>>,
     <<[blockReason |-> <<>>, blockReasonMessage |-> <<>>]>>,
     <<[blockReason |-> <<"SAFETY">>, blockReasonMessage |-> <<>>]>>,
     <<[blockReason |-> <<"OTHER">>, blockReasonMessage |-> <<"message">>]>>}

\* a part with text only, and parts with inlineData
Parts ==
    {[inlineData |-> <<>>],
     [inlineData |-> <<[mimeType |-> "image/png", data |-> "A"]>>],
     [inlineData |-> <<[mimeType |-> "image/jpeg", data |-> "B"]>>]}

FinishReasons == {<<>>, <<"STOP">>, <<"SAFETY">>}

\* candidates[0]: every sequence of parts up to MaxParts
FirstCandidates ==
    {[parts |-> ps, finishReason |-> f] :
        ps \in UNION {[1..k -> Parts] : k \in 0..MaxParts}, f \in FinishReasons}

\* candidates[1..]: one with an image that stopped, one without parts that
\* did not
LaterCandidates ==
    {[parts |-> <<[inlineData |-> <<[mimeType |-> "image/png", data |-> "C"]>>]>>,
      finishReason |-> <<"STOP">>],
     [parts |-> <<>>, finishReason |-> <<"MAX_TOKENS">>]}

CandidateLists ==
    {<<>>} \cup
    {<<c>> \o rest :
        c \in FirstCandidates,
        rest \in UNION {[1..k -> LaterCandidates] : k \in 0..(MaxCandidates - 1)}}

\* response.text: undefined, blank, or words
Texts == {<<>>, <<" ">>, <<"words">>}

Responses ==
    {[promptFeedback |-> pf, candidates |-> cs, text |-> t] :
        pf \in PromptFeedbacks, cs \in CandidateLists, t \in Texts}

\* `data:${mimeType};base64,${data}`
DataUrl(inlineData) ==
    [scheme |-> "data", mimeType |-> inlineData.mimeType,
     encoding |-> "base64", data |-> inlineData.data]

Returned(value) == [returned |-> <<value>>, thrown |-> <<>>]
Thrown(message) == [returned |-> <<>>, thrown |-> <<message>>]

\* parts.find(part => part.inlineData): the first part that has inlineData,
\* <<>> when candidates[0], its content or such a part is missing
FindImagePart(resp) ==
    IF resp.candidates = <<>> THEN <<>>
    ELSE LET parts == resp.candidates[1].parts
             hits == {k \in 1..Len(parts) : parts[k].inlineData # <<>>}
         IN  IF hits = {} THEN <<>>
             ELSE <<parts[CHOOSE k \in hits : \A o \in hits : k <= o]>>

\* response.text?.trim()
TextFeedback(resp) ==
    IF resp.text = <<>> THEN "" ELSE Trim(resp.text[1])

\* steps 3 and 4 of handleApiResponse: no image part was found
WithoutImage(resp, context) ==
    LET finishReason ==
            IF resp.candidates = <<>> THEN <<>>
            ELSE resp.candidates[1].finishReason
    IN  IF finishReason # <<>> /\ finishReason[1] # "STOP"
        THEN Thrown([text |-> "stopped unexpectedly", context |-> context,
                     reason |-> finishReason[1], detail |-> ""])
        ELSE Thrown([text |-> "did not return an image", context |-> context,
                     reason |-> "",
                     detail |-> IF TextFeedback(resp) # ""
                                THEN TextFeedback(resp)
                                ELSE "This can happen due to safety filters"])

\* a classification that looks for the image part before the block reason
handleApiResponseImageFirst(resp, context) ==
    IF FindImagePart(resp) # <<>>
    THEN Returned(DataUrl(FindImagePart(resp)[1].inlineData[1]))
    ELSE IF resp.promptFeedback # <<>> /\ resp.promptFeedback[1].blockReason # <<>>
    THEN Thrown([text |-> "Request was blocked", context |-> "",
                 reason |-> resp.promptFeedback[1].blockReason[1],
                 detail |-> IF resp.promptFeedback[1].blockReasonMessage = <<>>
                            THEN ""
                            ELSE resp.promptFeedback[1].blockReasonMessage[1]])
    ELSE WithoutImage(resp, context)

handleApiResponse(resp, context) ==
    IF resp.promptFeedback # <<>> /\ resp.promptFeedback[1].blockReason # <<>>
    THEN Thrown([text |-> "Request was blocked", context |-> "",
                 reason |-> resp.promptFeedback[1].blockReason[1],
                 detail |-> IF resp.promptFeedback[1].blockReasonMessage = <<>>
                            THEN ""
                            ELSE resp.promptFeedback[1].blockReasonMessage[1]])
    ELSE IF FindImagePart(resp) # <<>>
    THEN Returned(DataUrl(FindImagePart(resp)[1].inlineData[1]))
    ELSE WithoutImage(resp, context)

\* a service function hands the collaborator's response to handleApiResponse
ApplyHandleApiResponse(context) ==
    /\ response # <<>>
    /\ apiResult = <<>>
    /\ apiResult' = <<handleApiResponse(response[1], context)>>
    /\ UNCHANGED <<storeVars, isLoading, error, activeTab, completedCrop,
                   gateVars, asyncVars, selectedIndex, toolVars, videoVars,
                   urlVars, used, refVars, response>>

InitClassify ==
    /\ InitApp
    /\ response \in {<<resp>> : resp \in Responses}
    /\ apiResult = <<>>

NextClassify == \E context \in Contexts : ApplyHandleApiResponse(context)

SpecClassify == InitClassify /\ [][NextClassify]_vars

\* the cases of the claim, read off the response
IsBlocked(resp) ==
    \E pf \in {resp.promptFeedback[k] : k \in 1..Len(resp.promptFeedback)} :
        pf.blockReason # <<>>

HasImageInFirstCandidate(resp) ==
    /\ Len(resp.candidates) >= 1
    /\ \E k \in 1..Len(resp.candidates[1].parts) :
          resp.candidates[1].parts[k].inlineData # <<>>

FinishedOtherThanStop(resp) ==
    /\ Len(resp.candidates) >= 1
    /\ resp.candidates[1].finishReason \notin {<<>>, <<"STOP">>}

ErrorText(result) ==
    IF result.thrown = <<>> THEN "" ELSE result.thrown[1].text

\* C35: a block reason gives the 'Request was blocked' error even with an
\* image part; otherwise an image part in the first candidate gives that
\* image, whatever the finish reason; otherwise a finish reason other than
\* STOP gives 'stopped unexpectedly'; otherwise 'did not return an image';
\* and every response gives exactly one image or exactly one error.
C35_ClassificationPriority ==
    apiResult # <<>> =>
        LET resp == response[1]
            result == apiResult[1]
        IN  /\ Len(result.returned) + Len(result.thrown) = 1
            /\ IF IsBlocked(resp)
               THEN ErrorText(result) = "Request was blocked"
               ELSE IF HasImageInFirstCandidate(resp)
               THEN /\ result.thrown = <<>>
                    /\ \E k \in 1..Len(resp.candidates[1].parts) :
                          /\ resp.candidates[1].parts[k].inlineData # <<>>
                          /\ result.returned[1].data =
                                resp.candidates[1].parts[k].inlineData[1].data
               ELSE IF FinishedOtherThanStop(resp)
               THEN ErrorText(result) = "stopped unexpectedly"
               ELSE ErrorText(result) = "did not return an image"

\* a blocked response that carries an image part has been classified
C35_Witness ==
    /\ apiResult # <<>>
    /\ IsBlocked(response[1])
    /\ HasImageInFirstCandidate(response[1])
    /\ apiResult[1].thrown # <<>>

\* ------------------------------------------------------------------ C36
\* C36: in every reachable state the candidate list is present exactly when
\* the pending commit function is present.
C36_GatePartsAgree == (variationImages # <<>>) <=> (pendingAction # <<>>)

\* a request has resolved and the gate is shown with both parts present
C36_Witness ==
    /\ Screen = "gate"
    /\ Len(variationImages) = NumVariations
    /\ pendingAction # <<>>

\* ------------------------------------------------------------------ C37
\* C37: the two stores are mutually exclusive in every reachable state: in
\* batch mode history is empty with cursor -1, in single-image mode the
\* batch collection is empty; so no commit or batch-apply step that
\* completes after a mode change writes into the store of the mode left.
C37_StoresExclusive ==
    /\ isBatchMode => history = <<>> /\ historyIndex = -1
    /\ ~isBatchMode => batchImages = <<>>

\* ------------------------------------------------------------------ C38
\* C38: whenever a variations request, a batch apply or a video generation
\* is in flight, loading is true.
C38_LoadingWhileInFlight ==
    (varReqs # <<>> \/ batchRuns # <<>> \/ videoReqs # <<>>) => isLoading

\* ------------------------------------------------------------------ C39
\* C39: a batch upload makes the collection of its files, and from then on
\* a batch-apply step leaves the collection of the present upload as it is
\* but for the edited of its own pair: it brings back no pair of an earlier
\* collection, changes no original, and reverts no edit committed through
\* the gate while it was running.
C39_StaleApplyLeavesCollection ==
    [][ /\ \A files \in Selections :
              (Len(files) > 1 /\ handleFileSelect(files))
                 => /\ Len(batchImages') = Len(files)
                    /\ \A k \in 1..Len(files) : batchImages'[k].original = files[k]
        /\ \A b \in 1..MaxOps :
              BatchStepResolved(b) =>
                 /\ Len(batchImages') = Len(batchImages)
                 /\ \A k \in 1..Len(batchImages) :
                       /\ batchImages'[k].original = batchImages[k].original
                       /\ k # batchRuns[b].i + 1
                             => batchImages'[k].edited = batchImages[k].edited
      ]_vars

\* ------------------------------------------------------------------ C40
\* One image in the editor while a variations request made in batch mode is
\* still in flight and loading is false: the state after a batch upload, a
\* variations request, a zip download that resolved before the request
\* (its finally block cleared loading), 'Exit Batch Mode' and the upload of
\* one file.
InitRequestInFlight ==
    /\ history = <<UploadFile(1)>>
    /\ historyIndex = 0
    /\ isBatchMode = FALSE
    /\ batchImages = <<>>
    /\ activeIndex = 0
    /\ isLoading = FALSE
    /\ error = NoError
    /\ activeTab = "retouch"
    /\ completedCrop = FALSE
    /\ variationImages = <<>>
    /\ pendingAction = <<>>
    /\ varReqs = <<[cl |-> [history |-> <<>>, historyIndex |-> -1,
                            isBatchMode |-> TRUE, activeIndex |-> 0],
                    resolved |-> 0]>>
    /\ batchRuns = <<>>
    /\ zips = 0
    /\ timers = 0
    /\ selectedIndex = 0
    /\ prompt = ""
    /\ editHotspot = <<>>
    /\ displayHotspot = <<>>
    /\ hotspotOn = Undef
    /\ videoResult = <<>>
    /\ isExtendingVideo = FALSE
    /\ videoLastFrame = <<>>
    /\ videoReqs = <<>>
    /\ extracts = <<>>
    /\ videoUrls = {}
    /\ currentImageUrl = <<[id |-> 1, of |-> UploadFile(1)]>>
    /\ liveUrls = {[id |-> 1, of |-> UploadFile(1)]}
    /\ used = 0
    /\ lastUpload = UploadFile(1)
    /\ refHistory = <<UploadFile(1)>>
    /\ refCursor = 0
    /\ response = <<>>
    /\ apiResult = <<>>

\* the video flow next to the request in flight and its gate
NextFollowUp ==
    \/ \E tab \in Tabs : setActiveTab(tab)
    \/ \E p \in Prompts : ImageToVideoPanel_handleGenerate(p)
    \/ \E p \in Prompts : VideoExtendPanel_handleGenerate(p)
    \/ \E v \in 1..MaxOps, done \in BOOLEAN : OperationStarted(v, done)
    \/ \E v \in 1..MaxOps, done \in BOOLEAN : Poll(v, done)
    \/ \E v \in 1..MaxOps : VideoResolved(v)
    \/ \E v \in 1..MaxOps, err \in Failures : VideoRejected(v, err)
    \/ handleBackToEditor
    \/ handleStartExtendVideo
    \/ \E e \in 1..MaxOps : ExtractResolved(e)
    \/ \E e \in 1..MaxOps, err \in ExtractFailures : ExtractRejected(e, err)
    \/ \E r \in 1..MaxOps : GenerateCallResolved(r)
    \/ \E r \in 1..MaxOps : VariationsResolved(r)
    \/ \E r \in 1..MaxOps, err \in Failures : VariationsRejected(r, err)
    \/ handleVariationCancel
    \/ DismissError

SpecFollowUp == InitRequestInFlight /\ [][NextFollowUp]_vars

\* C40: a follow-up request issued from extending clears the extending flag
\* and the extracted frame when it starts; when it fails the video that gave
\* the frame is still held with its URL live, the flow is in reviewing and
\* the error is set; when it succeeds the held video is the new one.
C40_FollowUpRequest ==
    [][ /\ \A p \in Prompts :
              (~IsBlank(p) /\ VideoExtendPanel_handleGenerate(p))
              => /\ ~isExtendingVideo'
                 /\ videoLastFrame' = <<>>
        /\ \A v \in 1..MaxOps, err \in Failures :
              (~FromEditor(v) /\ VideoRejected(v, err))
              => /\ videoResult' # <<>>
                 /\ FrameOf(videoResult'[1].blob) = videoReqs[v].seed
                 /\ videoResult'[1].url \in videoUrls'
                 /\ VideoFlow' = "reviewing"
                 /\ error' = ErrorOf(MessageOf(err), 0)
        /\ \A v \in 1..MaxOps :
              (~FromEditor(v) /\ VideoResolved(v))
              => /\ videoResult' # <<>>
                 /\ videoResult'[1].blob = VideoOf(videoReqs[v].seed)
      ]_vars

====
